---- MODULE Spec2Model ----
(***************************************************************************)
(* A model of the retrieval-augmented knowledge core of IntegraMind:       *)
(*   - KnowledgeGraph        (src/chat_ai/knowledge_graph.py)              *)
(*   - Brain / vector stores (src/chat_ai/brain.py, vector_store.py,       *)
(*                            data.py, embeddings.py)                      *)
(*   - EnhancedMemory        (src/chat_ai/enhanced_memory.py)              *)
(*   - ChatMemory and ask    (src/chat_ai/memory.py, brain.py, tools.py)   *)
(*   - add_edge and ingest_raw called from two threads                     *)
(*                                                                         *)
(* Conventions.                                                            *)
(*   - A Python str is a sequence of one-character strings, so that        *)
(*     lower(), "in", startswith() and endswith() are computed.            *)
(*   - A float weight or score is an integer number of tenths.             *)
(*   - KnowledgeEdge.evidence is a Python list; it is modelled by its set  *)
(*     of elements (list(set(..)) fixes no order of the elements).         *)
(***************************************************************************)
EXTENDS Integers, Sequences, FiniteSets, TLC

VARIABLES
    nodes,      \* KnowledgeGraph.nodes: insertion-ordered dict, a sequence of nodes
    edges,      \* KnowledgeGraph.edges: list of edges
    db_nodes,   \* table nodes(id PRIMARY KEY, ...): a set of rows
    db_edges,   \* table edges(id AUTOINCREMENT, ...): rows in id order
    kg_ret,     \* the last KnowledgeGraph call and what it returned
    edge_calls, \* the add_edge calls of the threads: position and locals of each
    prefer_faiss,     \* Brain: TRUE for FaissVectorStore, FALSE for InMemoryVectorStore
    _storage_dir,     \* Brain._storage_dir is set (every ingest and removal saves)
    _corpus_texts,    \* Brain._corpus_texts
    _corpus_metas,    \* Brain._corpus_metas
    store_index,      \* store._embeddings / store._index: None or the rows
    store_metas,      \* store._metas
    _retrieve_cache,  \* Brain._retrieve_cache: insertion-ordered dict, key/value pairs
    disk,             \* the storage directory: corpus.json, metas.json, index.faiss
    brain_ret,        \* the last Brain call and what it returned
    faults,           \* the number of calls in which a step raised
    ingest_calls,     \* the ingest_raw calls of the threads: position and locals of each
    long_term_memory, \* EnhancedMemory: table long_term_memory, rows in id order
    short_term,       \* EnhancedMemory.short_term
    max_short_term,   \* EnhancedMemory.max_short_term
    llm_client,       \* EnhancedMemory.llm_client is set
    now,              \* the clock: <<day, time of day>>
    mem_ret,          \* the last EnhancedMemory call and what it returned
    _messages,        \* Brain.memory (a ChatMemory): _messages
    _mode,            \* Brain.llm._mode
    gen,              \* the generator a streamed ask returned: None, or its frame
    asked,            \* the number of ask calls
    ask_ret           \* the last ask call, or step of its stream, and what it returned

kgVars == <<nodes, edges, db_nodes, db_edges, kg_ret, edge_calls>>

brainVars == <<prefer_faiss, _storage_dir, _corpus_texts, _corpus_metas,
               store_index, store_metas, _retrieve_cache, disk, brain_ret,
               faults, ingest_calls>>

memVars == <<long_term_memory, short_term, max_short_term, llm_client, now, mem_ret>>

askVars == <<_messages, _mode, gen, asked, ask_ret>>

vars == <<nodes, edges, db_nodes, db_edges, kg_ret, edge_calls,
          prefer_faiss, _storage_dir, _corpus_texts, _corpus_metas,
          store_index, store_metas, _retrieve_cache, disk, brain_ret, faults,
          ingest_calls,
          long_term_memory, short_term, max_short_term, llm_client, now, mem_ret,
          _messages, _mode, gen, asked, ask_ret>>

(***************************************************************************)
(* Strings                                                                 *)
(***************************************************************************)
Str(c) == <<c>>

\* str.lower() on one character
LowerChar(c) ==
    CASE c = "P" -> "p"
      [] c = "A" -> "a"
      [] c = "R" -> "r"
      [] c = "Q" -> "q"
      [] c = "N" -> "n"
      [] c = "U" -> "u"
      [] c = "C" -> "c"
      [] c = "H" -> "h"
      [] OTHER   -> c

LowerStr(s) == [i \in 1..Len(s) |-> LowerChar(s[i])]

\* src.startswith(p)
StartsWith(s, p) ==
    /\ Len(p) <= Len(s)
    /\ \A i \in 1..Len(p) : s[i] = p[i]

\* sub in s
Contains(sub, s) ==
    \E off \in 0..(Len(s) - Len(sub)) :
        \A i \in 1..Len(sub) : s[off + i] = sub[i]

\* Python's None
NoneT == "None"

Min(a, b) == IF a <= b THEN a ELSE b
Max(a, b) == IF a >= b THEN a ELSE b

(***************************************************************************)
(* Brain.__init__ without stored data: empty corpus, empty store, and an   *)
(* empty storage directory                                                 *)
(***************************************************************************)
\* an optional value: None, or Some(v)
None == [is_none |-> TRUE]
Some(v) == [is_none |-> FALSE, v |-> v]

\* the threads of the process that call into one KnowledgeGraph or one Brain
Threads == {1, 2}

\* no thread is inside a call
NoCalls == [t \in Threads |-> [pc |-> "idle"]]

EmptyDisk == [corpus_json |-> None, metas_json |-> None, index_faiss |-> None]

\* EnhancedMemory on a new database file, at the start of the clock
MemoryNew ==
    /\ long_term_memory = <<>>
    /\ short_term = <<>>
    /\ max_short_term = 20
    /\ llm_client = FALSE
    /\ now = <<1, 1>>
    /\ mem_ret = [op |-> "init"]

\* Brain.__init__: self.llm = LLMClient(), self.memory = ChatMemory(max_chars=4000)
AskNew ==
    /\ _messages = <<>>
    /\ _mode = "fallback"
    /\ gen = None
    /\ asked = 0
    /\ ask_ret = [op |-> "init"]

BrainNew ==
    /\ _corpus_texts = <<>>
    /\ _corpus_metas = <<>>
    /\ store_index = None
    /\ store_metas = <<>>
    /\ _retrieve_cache = <<>>
    /\ disk = EmptyDisk
    /\ brain_ret = [op |-> "init"]
    /\ faults = 0
    /\ ingest_calls = NoCalls

(***************************************************************************)
(* KnowledgeGraph: bounds and inputs                                       *)
(***************************************************************************)
MaxEdges == 2

KnowledgeNode(id, type, label, description, metadata) ==
    [id |-> id, type |-> type, label |-> label,
     description |-> description, metadata |-> metadata]

KnowledgeEdge(source, target, relation_type, weight, evidence) ==
    [source |-> source, target |-> target, relation_type |-> relation_type,
     weight |-> weight, evidence |-> evidence]

\* The nodes handed to add_node: each id in two versions.
NodeInputs ==
    { KnowledgeNode("P", "problem", Str("P"), <<>>, "m0"),
      KnowledgeNode("P", "problem", Str("Q"), Str("p"), "m1"),
      KnowledgeNode("A", "action", Str("A"), <<>>, "m0"),
      KnowledgeNode("A", "tool", <<"a", "p">>, <<>>, "m0"),
      KnowledgeNode("R", "result", Str("R"), <<>>, "m0") }

\* the triples handed to add_edge in the mutation specification
EdgeKeys ==
    { <<"P", "A", "requires">>, <<"A", "R", "produces">>, <<"A", "P", "requires">> }

\* the triples handed to add_edge in the path-search specification
PathEdgeKeys == EdgeKeys \cup { <<"P", "R", "produces">> }

Weights == 1..2

EvidenceInputs == { {"d1"}, {"d2"} }

EdgeInputs ==
    { KnowledgeEdge(k[1], k[2], k[3], w, ev) :
        k \in EdgeKeys, w \in Weights, ev \in EvidenceInputs }

PathEdgeInputs ==
    { KnowledgeEdge(k[1], k[2], k[3], 1, {"d1"}) : k \in PathEdgeKeys }

EdgeKey(e) == <<e.source, e.target, e.relation_type>>

NodeIds == {nodes[i].id : i \in 1..Len(nodes)}

\* self.nodes.get(node_id): the index of the node, 0 for None
NodeIndex(ns, id) ==
    IF \E i \in 1..Len(ns) : ns[i].id = id
    THEN CHOOSE i \in 1..Len(ns) : ns[i].id = id
    ELSE 0

(***************************************************************************)
(* KnowledgeGraph.__init__ on a new database file                          *)
(***************************************************************************)
InitGraph ==
    /\ nodes = <<>>
    /\ edges = <<>>
    /\ db_nodes = {}
    /\ db_edges = <<>>
    /\ kg_ret = [op |-> "init"]
    /\ edge_calls = NoCalls

InitKG ==
    /\ InitGraph
    /\ prefer_faiss = TRUE
    /\ _storage_dir = FALSE
    /\ BrainNew
    /\ AskNew
    /\ MemoryNew

(***************************************************************************)
(* add_node / _save_node_to_db                                             *)
(***************************************************************************)
\* mutant of DictPut: the node is appended whether or not its id is held
DictPutAppend(ns, n) == Append(ns, n)

\* self.nodes[node.id] = node: a dict keeps the position of a key it holds
DictPut(ns, n) ==
    IF NodeIndex(ns, n.id) = 0
    THEN Append(ns, n)
    ELSE [ns EXCEPT ![NodeIndex(ns, n.id)] = n]

RECURSIVE ListOf(_)
\* the elements of a set as a list, in one fixed order
ListOf(S) ==
    IF S = {} THEN <<>>
    ELSE LET x == CHOOSE y \in S : TRUE IN <<x>> \o ListOf(S \ {x})

\* json.dumps(node.metadata): the text "{...}" of the dict
DumpsDict(metadata) == <<"{", metadata, "}">>

\* json.dumps(edge.evidence): the text "[...]" of the list
DumpsList(evidence) == <<"[">> \o ListOf(evidence) \o <<"]">>

\* "json.loads(metadata_json) if metadata_json else {}"
LoadsDict(metadata_json) == IF metadata_json = <<>> THEN "{}" ELSE metadata_json[2]

\* "json.loads(evidence_json) if evidence_json else []", as the set of the elements
LoadsList(evidence_json) ==
    IF evidence_json = <<>> THEN {}
    ELSE {evidence_json[i] : i \in 2..(Len(evidence_json) - 1)}

\* the row _save_node_to_db writes
NodeRow(n) ==
    [id |-> n.id, type |-> n.type, label |-> n.label, description |-> n.description,
     metadata |-> DumpsDict(n.metadata)]

\* the row _save_edge_to_db writes; weight is a REAL
EdgeRow(e) ==
    [source |-> e.source, target |-> e.target, relation_type |-> e.relation_type,
     weight |-> e.weight, evidence |-> DumpsList(e.evidence)]

\* the loop over the rows of nodes in _load_from_db: description or ""
RowNode(r) ==
    KnowledgeNode(r.id, r.type, r.label,
                  IF r.description = <<>> THEN <<>> ELSE r.description,
                  LoadsDict(r.metadata))

\* the loop over the rows of edges in _load_from_db: float(weight)
RowEdge(r) ==
    KnowledgeEdge(r.source, r.target, r.relation_type, r.weight, LoadsList(r.evidence))

\* _load_from_db into a new KnowledgeGraph: the nodes by id (SELECT fixes no
\* order of the rows of nodes) and the list of the edges
LoadFromDb(node_rows, edge_rows) ==
    [nodes |-> {RowNode(r) : r \in node_rows},
     edges |-> [i \in 1..Len(edge_rows) |-> RowEdge(edge_rows[i])]]

\* INSERT OR REPLACE INTO nodes
SaveNodeToDb(rows, n) == {r \in rows : r.id # n.id} \cup {NodeRow(n)}

AddNode(n) ==
    /\ nodes' = DictPut(nodes, n)
    /\ db_nodes' = SaveNodeToDb(db_nodes, n)
    /\ kg_ret' = [op |-> "add_node",
                  out |-> IF n.id \in NodeIds THEN "replaced" ELSE "inserted"]
    /\ UNCHANGED <<edges, db_edges, edge_calls>>
    /\ UNCHANGED brainVars
    /\ UNCHANGED memVars
    /\ UNCHANGED askVars

(***************************************************************************)
(* add_edge / _save_edge_to_db / _update_edge_in_db                        *)
(***************************************************************************)
\* mutant of Existing: no stored edge is ever found
ExistingNever(es, e) == 0

\* next(e for e in self.edges if same key, None): index of the first, 0 for None
Existing(es, e) ==
    IF \E i \in 1..Len(es) : EdgeKey(es[i]) = EdgeKey(e)
    THEN CHOOSE i \in 1..Len(es) :
            /\ EdgeKey(es[i]) = EdgeKey(e)
            /\ \A j \in 1..(i - 1) : EdgeKey(es[j]) # EdgeKey(e)
    ELSE 0

\* mutant of MergeEdge: the new evidence replaces the old
MergeEdgeReplace(old, e) ==
    [old EXCEPT !.weight = e.weight, !.evidence = e.evidence]

\* existing.weight = edge.weight; existing.evidence = list(set(old + new))
MergeEdge(old, e) ==
    [old EXCEPT !.weight = e.weight, !.evidence = old.evidence \cup e.evidence]

\* mutant of Stronger: >= for >
StrongerOrEqual(e, old) == e.weight >= old.weight

\* edge.weight > existing.weight
Stronger(e, old) == e.weight > old.weight

\* mutant of UpdateEdgeInDb: the row keeps its evidence
UpdateWeightInDb(rows, e) ==
    [i \in 1..Len(rows) |->
        IF EdgeKey(rows[i]) = EdgeKey(e)
        THEN [rows[i] EXCEPT !.weight = e.weight]
        ELSE rows[i]]

\* UPDATE edges SET weight=?, evidence=? WHERE source=? AND target=? AND relation_type=?
UpdateEdgeInDb(rows, e) ==
    [i \in 1..Len(rows) |->
        IF EdgeKey(rows[i]) = EdgeKey(e)
        THEN [rows[i] EXCEPT !.weight = e.weight, !.evidence = DumpsList(e.evidence)]
        ELSE rows[i]]

\* mutant of EndpointsKnown: the target is not checked
SourceKnown(e) == e.source \in NodeIds

\* the endpoint checks of add_edge
EndpointsKnown(e) == e.source \in NodeIds /\ e.target \in NodeIds

AddEdge(e) ==
    /\ Len(edges) < MaxEdges \/ Existing(edges, e) # 0 \/ ~EndpointsKnown(e)
    /\ UNCHANGED <<nodes, db_nodes, edge_calls>>
    /\ UNCHANGED brainVars
    /\ UNCHANGED memVars
    /\ UNCHANGED askVars
    /\ IF ~EndpointsKnown(e)
       THEN /\ UNCHANGED <<edges, db_edges>>
            /\ kg_ret' = [op |-> "add_edge", out |-> "rejected"]
       ELSE IF Existing(edges, e) # 0
       THEN IF Stronger(e, edges[Existing(edges, e)])
            THEN /\ edges' = [edges EXCEPT ![Existing(edges, e)] = MergeEdge(@, e)]
                 /\ db_edges' = UpdateEdgeInDb(db_edges,
                                    MergeEdge(edges[Existing(edges, e)], e))
                 /\ kg_ret' = [op |-> "add_edge", out |-> "merged"]
            ELSE /\ UNCHANGED <<edges, db_edges>>
                 /\ kg_ret' = [op |-> "add_edge", out |-> "noop"]
       ELSE /\ edges' = Append(edges, e)
            /\ db_edges' = Append(db_edges, EdgeRow(e))
            /\ kg_ret' = [op |-> "add_edge", out |-> "inserted"]

(***************************************************************************)
(* find_nodes / get_related_nodes                                          *)
(***************************************************************************)
\* the test of find_nodes on one node
NodeMatches(node, query, node_type) ==
    /\ ~(node_type # NoneT /\ node.type # node_type)
    /\ \/ Contains(LowerStr(query), LowerStr(node.label))
       \/ Contains(LowerStr(query), LowerStr(node.description))

\* find_nodes(query, node_type, limit): results[:limit], in dict order
FindNodes(ns, query, node_type, limit) ==
    LET Hit(n) == NodeMatches(n, query, node_type)
        results == SelectSeq(ns, Hit)
    IN  SubSeq(results, 1, Min(limit, Len(results)))

FindNodesLimit == 10

RECURSIVE RelatedFrom(_, _, _, _, _, _)
\* the loop of get_related_nodes over self.edges[i..]
RelatedFrom(ns, es, i, node_id, relation_type, direction) ==
    IF i > Len(es) THEN <<>>
    ELSE LET edge == es[i]
             skip == relation_type # NoneT /\ edge.relation_type # relation_type
             outHit == /\ direction \in {"out", "both"}
                       /\ edge.source = node_id
                       /\ NodeIndex(ns, edge.target) # 0
             inHit == /\ direction \in {"in", "both"}
                      /\ edge.target = node_id
                      /\ NodeIndex(ns, edge.source) # 0
             here == IF skip THEN <<>>
                     ELSE (IF outHit
                           THEN << <<ns[NodeIndex(ns, edge.target)], edge>> >>
                           ELSE <<>>)
                          \o (IF inHit
                              THEN << <<ns[NodeIndex(ns, edge.source)], edge>> >>
                              ELSE <<>>)
         IN  here \o RelatedFrom(ns, es, i + 1, node_id, relation_type, direction)

GetRelatedNodes(ns, es, node_id, relation_type, direction) ==
    IF NodeIndex(ns, node_id) = 0 THEN <<>>
    ELSE RelatedFrom(ns, es, 1, node_id, relation_type, direction)

(***************************************************************************)
(* find_solution_path / _calculate_path_score                              *)
(***************************************************************************)
\* a path entry is the tuple (relation, node_id, node_type)
PathTypes(path) == {path[i][3] : i \in 1..Len(path)}

\* mutant of CalculatePathScore: min for max in the last line
CalculatePathScoreMin(path) ==
    IF Len(path) = 0 THEN 0
    ELSE Min(0, 10 + 2 * Cardinality(PathTypes(path))
                   - (IF Len(path) > 5 THEN Len(path) - 5 ELSE 0)
                   + (IF path[Len(path)][3] = "result" THEN 5 ELSE 0))

\* _calculate_path_score, in tenths
CalculatePathScore(path) ==
    IF Len(path) = 0 THEN 0
    ELSE Max(0, 10 + 2 * Cardinality(PathTypes(path))
                   - (IF Len(path) > 5 THEN Len(path) - 5 ELSE 0)
                   + (IF path[Len(path)][3] = "result" THEN 5 ELSE 0))

\* the least number of entries of a path that is saved at a result node
MinSavedPath == 2

\* mutant of TooDeep: one level more is searched
TooDeepByOne(depth, max_depth) == depth > max_depth + 1

\* "if depth > max_depth: return"
TooDeep(depth, max_depth) == depth > max_depth

\* the search state the nested dfs shares: the list paths and the set visited_edges
NewSearch == [paths |-> <<>>, visited_edges |-> {}]

\* visited_edges.add(edge_key)
Visit(st, edge_key) == [st EXCEPT !.visited_edges = @ \cup {edge_key}]

\* mutant of Unvisit: the edge key stays in the set
UnvisitKeep(st, edge_key) == st

\* visited_edges.remove(edge_key)
Unvisit(st, edge_key) == [st EXCEPT !.visited_edges = @ \ {edge_key}]

\* prioritized + regular: the related nodes whose edge is not in visited_edges,
\* actions and tools first
Unvisited(ns, es, node_id, visited_edges) ==
    LET related == GetRelatedNodes(ns, es, node_id, NoneT, "out")
        Fresh(r) == <<node_id, r[1].id, r[2].relation_type>> \notin visited_edges
        Prio(r) == Fresh(r) /\ r[1].type \in {"action", "tool"}
        Regular(r) == Fresh(r) /\ r[1].type \notin {"action", "tool"}
    IN  SelectSeq(related, Prio) \o SelectSeq(related, Regular)

RECURSIVE Dfs(_, _, _, _, _, _, _, _)
RECURSIVE DfsEach(_, _, _, _, _, _, _, _, _)

\* dfs(node_id, path, depth, current_sequence) run on the search state st;
\* the value is the search state when the call returns
Dfs(ns, es, max_depth, node_id, path, depth, current_sequence, st) ==
    IF TooDeep(depth, max_depth) THEN st
    ELSE IF NodeIndex(ns, node_id) = 0 THEN st
    ELSE IF ns[NodeIndex(ns, node_id)].type = "result"
         THEN IF Len(path) >= MinSavedPath
              THEN [st EXCEPT !.paths =
                       Append(@, [path |-> path, sequence |-> current_sequence,
                                  score |-> CalculatePathScore(path)])]
              ELSE st
         ELSE DfsEach(ns, es, max_depth, node_id, path, depth, current_sequence, st,
                      Unvisited(ns, es, node_id, st.visited_edges))

\* the loop "for target_node, edge, edge_key in prioritized + regular"
DfsEach(ns, es, max_depth, node_id, path, depth, current_sequence, st, todo) ==
    IF todo = <<>> THEN st
    ELSE LET target_node == todo[1][1]
             edge == todo[1][2]
             edge_key == <<node_id, target_node.id, edge.relation_type>>
             new_path == Append(path, <<edge.relation_type, target_node.id, target_node.type>>)
             new_sequence == Append(current_sequence, target_node.label)
         IN  DfsEach(ns, es, max_depth, node_id, path, depth, current_sequence,
                     Unvisit(Dfs(ns, es, max_depth, target_node.id, new_path,
                                 depth + 1, new_sequence, Visit(st, edge_key)),
                             edge_key),
                     Tail(todo))

\* dfs(problem_node.id, [("start", problem_node.id, "problem")], 0, [label])
DfsFrom(ns, es, max_depth, pn, st) ==
    Dfs(ns, es, max_depth, pn.id, << <<"start", pn.id, "problem">> >>, 0, <<pn.label>>, st)

RECURSIVE DfsFromEach(_, _, _, _, _)
\* "for problem_node in problem_nodes: dfs(...)", from the search state st
DfsFromEach(ns, es, max_depth, problem_nodes, st) ==
    IF problem_nodes = <<>> THEN st
    ELSE DfsFromEach(ns, es, max_depth, Tail(problem_nodes),
                     DfsFrom(ns, es, max_depth, problem_nodes[1], st))

RECURSIVE InsertDesc(_, _)
\* insert x after every element whose score is >= its own (a stable sort step)
InsertDesc(sorted, x) ==
    IF sorted = <<>> THEN <<x>>
    ELSE IF sorted[1].score >= x.score
         THEN <<sorted[1]>> \o InsertDesc(Tail(sorted), x)
         ELSE <<x>> \o sorted

\* mutant of SortByScoreDesc: the paths stay in the order of discovery
SortByScoreNot(ps) == ps

RECURSIVE SortByScoreDesc(_)
\* paths.sort(key=score, reverse=True): stable
SortByScoreDesc(ps) ==
    IF ps = <<>> THEN <<>>
    ELSE InsertDesc(SortByScoreDesc(SubSeq(ps, 1, Len(ps) - 1)), ps[Len(ps)])

TopPaths == 5

\* one formatted path: the steps of the nodes that exist, their count, the score
FormatPath(ns, path_data) ==
    LET path == path_data.path
        present == {i \in 1..Len(path) : NodeIndex(ns, path[i][2]) # 0}
        StepAt(i) == [step |-> i,
                      node |-> ns[NodeIndex(ns, path[i][2])],
                      relation |-> IF i > 1 THEN path[i][1] ELSE "start",
                      type |-> path[i][3]]
        RECURSIVE Steps(_)
        Steps(i) == IF i > Len(path) THEN <<>>
                    ELSE (IF i \in present THEN <<StepAt(i)>> ELSE <<>>) \o Steps(i + 1)
        steps == Steps(1)
    IN  [path |-> steps, length |-> Len(steps), score |-> path_data.score,
         sequence |-> path_data.sequence]

\* the problem nodes find_solution_path starts from
ProblemNodes(ns, problem) ==
    LET first == FindNodes(ns, problem, "problem", FindNodesLimit)
        all_problems == FindNodes(ns, <<>>, "problem", FindNodesLimit)
        Similar(prob) == \/ Contains(LowerStr(problem), LowerStr(prob.label))
                         \/ Contains(LowerStr(problem), LowerStr(prob.description))
    IN  IF first # <<>> THEN first ELSE SelectSeq(all_problems, Similar)

\* the paths found, before sorting
DiscoveredPaths(ns, es, problem, max_depth) ==
    DfsFromEach(ns, es, max_depth, ProblemNodes(ns, problem), NewSearch).paths

FindSolutionPathResult(ns, es, problem, max_depth) ==
    IF ProblemNodes(ns, problem) = <<>> THEN <<>>
    ELSE LET sorted == SortByScoreDesc(DiscoveredPaths(ns, es, problem, max_depth))
             top == SubSeq(sorted, 1, Min(TopPaths, Len(sorted)))
             kept == {i \in 1..Len(top) : FormatPath(ns, top[i]).path # <<>>}
             RECURSIVE Out(_)
             Out(i) == IF i > Len(top) THEN <<>>
                       ELSE (IF i \in kept THEN <<FormatPath(ns, top[i])>> ELSE <<>>)
                            \o Out(i + 1)
         IN  Out(1)

ProblemInputs == { Str("P"), Str("x") }
DepthInputs == {1, 3}

FindSolutionPath(problem, max_depth) ==
    /\ kg_ret' = [op |-> "find_solution_path", problem |-> problem,
                  max_depth |-> max_depth,
                  paths |-> FindSolutionPathResult(nodes, edges, problem, max_depth)]
    /\ UNCHANGED <<nodes, edges, db_nodes, db_edges, edge_calls>>
    /\ UNCHANGED brainVars
    /\ UNCHANGED memVars
    /\ UNCHANGED askVars

NextKG ==
    \/ \E n \in NodeInputs : AddNode(n)
    \/ \E e \in EdgeInputs : AddEdge(e)

\* add_node and add_edge in any order
SpecKG == InitKG /\ [][NextKG]_vars

NextPath ==
    \/ \E n \in NodeInputs : AddNode(n)
    \/ \E e \in PathEdgeInputs : AddEdge(e)
    \/ \E problem \in ProblemInputs, max_depth \in DepthInputs :
          FindSolutionPath(problem, max_depth)

\* graphs built by add_node and add_edge, searched by find_solution_path
SpecPath == InitKG /\ [][NextPath]_vars

(***************************************************************************)
(* KnowledgeGraph: the claims                                              *)
(***************************************************************************)
IsAddEdge(out) == kg_ret.op = "add_edge" /\ kg_ret.out = out

\* the stored edges with the key of e
SameKey(es, e) == {i \in 1..Len(es) : EdgeKey(es[i]) = EdgeKey(e)}

\* C1: after any sequence of add_node and add_edge calls the edge list holds at
\* most one edge for each (source, target, relation_type) triple.
C1_OneEdgePerTriple ==
    \A i, j \in 1..Len(edges) :
        EdgeKey(edges[i]) = EdgeKey(edges[j]) => i = j

\* an add_edge for a stored triple has run and the list holds MaxEdges edges
C1_Witness ==
    /\ kg_ret.op = "add_edge" /\ kg_ret.out \in {"merged", "noop"}
    /\ Len(edges) = MaxEdges

\* C2: add_edge with a source or target that is no stored node leaves the edge
\* list and the edges table unchanged (it returns, nothing is raised); hence both
\* endpoints of every stored edge are stored nodes, in every reachable state.
C2_UnknownEndpointRejected ==
    /\ [](\A i \in 1..Len(edges) :
            edges[i].source \in NodeIds /\ edges[i].target \in NodeIds)
    /\ [][\A e \in EdgeInputs :
            ((e.source \notin NodeIds \/ e.target \notin NodeIds) /\ AddEdge(e))
            => (edges' = edges /\ db_edges' = db_edges)]_vars

\* an edge was rejected for its target alone, in a graph that holds edges
C2_Witness ==
    /\ IsAddEdge("rejected")
    /\ edges # <<>>
    /\ NodeIds = {"P", "A"}

\* C3: add_edge with a weight strictly higher than that of the stored edge of
\* the same triple sets the stored weight to the new weight and the stored
\* evidence to the union of both evidence sets; the edge count does not change.
C3_HigherWeightMerges ==
    [][\A e \in EdgeInputs : \A i \in SameKey(edges, e) :
          (e.weight > edges[i].weight /\ AddEdge(e))
          => /\ Len(edges') = Len(edges)
             /\ edges'[i].weight = e.weight
             /\ edges'[i].evidence = edges[i].evidence \cup e.evidence
             /\ EdgeKey(edges'[i]) = EdgeKey(e)]_vars

\* a merge has joined two different evidence sets
C3_Witness ==
    /\ IsAddEdge("merged")
    /\ \E i \in 1..Len(edges) : edges[i].evidence = {"d1", "d2"} /\ edges[i].weight = 2

\* C4: add_edge with a weight lower than or equal to that of the stored edge of
\* the same triple changes nothing: edge count, weights and evidence sets.
C4_LowerOrEqualIsNoop ==
    [][\A e \in EdgeInputs : \A i \in SameKey(edges, e) :
          (e.weight <= edges[i].weight /\ AddEdge(e))
          => (edges' = edges /\ db_edges' = db_edges /\ nodes' = nodes)]_vars

\* a lower-or-equal add_edge has run on a graph with a stored edge
C4_Witness == IsAddEdge("noop") /\ edges # <<>>

\* C5: add_node is an upsert by id: after add_node(n) exactly one node has the id
\* n.id and it equals n; re-adding an id leaves the node count and every edge as
\* they were.
C5_AddNodeUpserts ==
    [][\A n \in NodeInputs :
          AddNode(n)
          => /\ \E i \in 1..Len(nodes') :
                   /\ nodes'[i] = n
                   /\ \A j \in 1..Len(nodes') : nodes'[j].id = n.id => j = i
             /\ n.id \in NodeIds => Len(nodes') = Len(nodes)
             /\ n.id \notin NodeIds => Len(nodes') = Len(nodes) + 1
             /\ edges' = edges /\ db_edges' = db_edges]_vars

\* a stored id was added again, with edges stored
C5_Witness ==
    /\ kg_ret.op = "add_node" /\ kg_ret.out = "replaced"
    /\ edges # <<>>

\* the graph of C6: nodes P (problem), A (action), R (result) and the edges
\* P -requires-> A and A -produces-> R
GraphIsPAR ==
    /\ NodeIds = {"P", "A", "R"}
    /\ Len(nodes) = 3
    /\ \A i \in 1..Len(nodes) :
          nodes[i].type = (CASE nodes[i].id = "P" -> "problem"
                             [] nodes[i].id = "A" -> "action"
                             [] OTHER -> "result")
    /\ {EdgeKey(edges[i]) : i \in 1..Len(edges)}
          = { <<"P", "A", "requires">>, <<"A", "R", "produces">> }
    /\ Len(edges) = 2

SearchedPAR ==
    /\ kg_ret.op = "find_solution_path"
    /\ kg_ret.problem = Str("P")
    /\ kg_ret.max_depth = 3
    /\ GraphIsPAR

MaxChunks == 3

Doc(source, text) == [source |-> source, text |-> text]

\* the largest number of calls in which an embedding, store or file step raises
MaxFaults == 1

\* faults after a call whose failing step is fail
Faulted(fail) ==
    /\ fail # "none" => faults < MaxFaults
    /\ faults' = IF fail = "none" THEN faults ELSE faults + 1

DocA1 == Doc(<<"a", "1">>, <<"x", "x", "y">>)
DocB  == Doc(<<"b">>, <<"x", "y">>)

\* the lists handed to ingest_raw
DocListInputs == { <<DocA1>>, <<DocB>>, <<DocB, DocA1>>, <<>> }

\* chunk_chars and overlap of the ingest_raw calls (the defaults are 800 and 150)
ChunkCharInputs == {2}
OverlapInputs == {1}

\* the pattern lists handed to remove_sources
PatternInputs ==
    { <<>>, << <<"a", "*">> >>, << <<"a">>, <<"b">> >>, << <<"*">> >> }

QueryInputs == { <<"x">> }
TopKInputs == {1, 2}

(***************************************************************************)
(* data.py: chunk_text and prepare_documents                               *)
(***************************************************************************)
RECURSIVE ChunkFrom(_, _, _, _)
\* the while loop of chunk_text, from position start (0-based)
ChunkFrom(text, max_chars, overlap, start) ==
    IF ~(start < Len(text)) THEN <<>>
    ELSE LET end == Min(start + max_chars, Len(text))
             piece == SubSeq(text, start + 1, end)
             next == Max(start + max_chars - overlap, end)
         IN  IF next >= Len(text) THEN <<piece>>
             ELSE <<piece>> \o ChunkFrom(text, max_chars, overlap, next)

chunk_text(text, max_chars, overlap) ==
    IF text = <<>> THEN <<>> ELSE ChunkFrom(text, max_chars, overlap, 0)

\* the id f"{source}::chunk_{i}": the pair (source, i), which the string determines
ChunkId(source, i) == <<source, i>>

\* the chunks of one document; chunk_index counts from 0
DocChunks(doc, max_chars, overlap) ==
    LET pieces == chunk_text(doc.text, max_chars, overlap)
    IN  [i \in 1..Len(pieces) |->
            [id |-> ChunkId(doc.source, i - 1), source |-> doc.source,
             chunk_index |-> i - 1, text |-> pieces[i]]]

RECURSIVE prepare_documents(_, _, _)
prepare_documents(raw_docs, max_chars, overlap) ==
    IF raw_docs = <<>> THEN <<>>
    ELSE DocChunks(raw_docs[1], max_chars, overlap)
         \o prepare_documents(Tail(raw_docs), max_chars, overlap)

\* metas = [{k: v for k, v in d.items() if k != "text"} for d in prepared]
MetaOf(d) == [id |-> d.id, source |-> d.source, chunk_index |-> d.chunk_index]

(***************************************************************************)
(* embeddings.py: the embedding of a text.  The backend is an external     *)
(* model; it is a fixed function of the text, here the counts of "x" and   *)
(* of "y", and the similarity is the dot product.                          *)
(***************************************************************************)
CountOf(c, text) == Cardinality({i \in 1..Len(text) : text[i] = c})

encode_query(text) == <<CountOf("x", text), CountOf("y", text)>>

encode_texts(texts) == [i \in 1..Len(texts) |-> encode_query(texts[i])]

Dot(u, v) == u[1] * v[1] + u[2] * v[2]

(***************************************************************************)
(* vector_store.py: add and search of both stores                          *)
(***************************************************************************)
\* np.vstack / index.add: the rows after add
AddRows(index, X) == IF index.is_none THEN Some(X) ELSE Some(index.v \o X)

\* store.size: the number of rows of the index, 0 for None
Rows(index) == IF index.is_none THEN 0 ELSE Len(index.v)

RECURSIVE RankFrom(_, _)
\* the indexes of left by descending similarity, the lower index first on a tie
RankFrom(sims, left) ==
    IF left = {} THEN <<>>
    ELSE LET best == CHOOSE i \in left :
                        \A j \in left : sims[i] > sims[j] \/ (sims[i] = sims[j] /\ i <= j)
         IN  <<best>> \o RankFrom(sims, left \ {best})

\* store.search(query_vec, top_k): (meta, score) pairs.  The exact scan takes
\* argsort(-sims)[:top_k]; FAISS takes its top_k rows and skips a row that has no meta.
Search(faiss, index, metas, query_vec, top_k) ==
    IF index.is_none \/ index.v = <<>> THEN <<>>
    ELSE LET sims == [i \in 1..Len(index.v) |-> Dot(query_vec, index.v[i])]
             ranked == RankFrom(sims, 1..Len(index.v))
             idxs == SubSeq(ranked, 1, Min(top_k, Len(ranked)))
             HasMeta(i) == i <= Len(metas)
             kept == IF faiss THEN SelectSeq(idxs, HasMeta) ELSE idxs
         IN  [n \in 1..Len(kept) |-> [meta |-> metas[kept[n]], score |-> sims[kept[n]]]]

(***************************************************************************)
(* Brain.retrieve                                                          *)
(***************************************************************************)
_cache_max_size == 100

\* cache_key = f"{query}::{top_k}": the pair, which the string determines
CacheKey(query, top_k) == <<query, top_k>>

CacheIndex(cache, key) ==
    IF \E i \in 1..Len(cache) : cache[i].key = key
    THEN CHOOSE i \in 1..Len(cache) : cache[i].key = key
    ELSE 0

\* the text of the first corpus meta with the id of the hit, "" when there is none
TextOfHit(texts, metas, meta) ==
    IF \E i \in 1..Len(metas) : metas[i].id = meta.id
    THEN texts[CHOOSE i \in 1..Len(metas) :
                  /\ metas[i].id = meta.id
                  /\ \A j \in 1..(i - 1) : metas[j].id # meta.id]
    ELSE <<>>

\* the list "enriched" of retrieve
Enriched(texts, metas, faiss, index, smetas, query, top_k) ==
    LET results == Search(faiss, index, smetas, encode_query(query), top_k)
    IN  [n \in 1..Len(results) |->
            [id |-> results[n].meta.id, source |-> results[n].meta.source,
             chunk_index |-> results[n].meta.chunk_index,
             score |-> results[n].score,
             text |-> TextOfHit(texts, metas, results[n].meta)]]

\* "if len(cache) > max: pop the first key", then "cache[key] = enriched"
CachePut(cache, key, value) ==
    LET room == IF Len(cache) > _cache_max_size THEN Tail(cache) ELSE cache
    IN  Append(room, [key |-> key, value |-> value])

\* what retrieve(query, top_k) returns in the current state
RetrieveResult(query, top_k) ==
    IF CacheIndex(_retrieve_cache, CacheKey(query, top_k)) # 0
    THEN _retrieve_cache[CacheIndex(_retrieve_cache, CacheKey(query, top_k))].value
    ELSE Enriched(_corpus_texts, _corpus_metas, prefer_faiss, store_index,
                  store_metas, query, top_k)

Retrieve(query, top_k) ==
    /\ brain_ret' = [op |-> "retrieve", query |-> query, top_k |-> top_k,
                     hit |-> CacheIndex(_retrieve_cache, CacheKey(query, top_k)) # 0,
                     value |-> RetrieveResult(query, top_k)]
    /\ _retrieve_cache' =
          IF CacheIndex(_retrieve_cache, CacheKey(query, top_k)) # 0
          THEN _retrieve_cache
          ELSE CachePut(_retrieve_cache, CacheKey(query, top_k),
                        RetrieveResult(query, top_k))
    /\ UNCHANGED <<ingest_calls, prefer_faiss, _storage_dir, _corpus_texts, _corpus_metas,
                   store_index, store_metas, disk, faults>>
    /\ UNCHANGED kgVars
    /\ UNCHANGED memVars
    /\ UNCHANGED askVars

(***************************************************************************)
(* Brain.save_index / FaissVectorStore.save, load_index / load             *)
(***************************************************************************)
\* The directory after save_index.  fail names the step that raises:
\*   "save_store"  faiss.write_index raises (metas.json is already written);
\*                 save_index logs it and goes on to corpus.json
\*   "save_corpus" writing corpus.json raises, the file is left as it was
\* InMemoryVectorStore has no save: only corpus.json is written.
DiskAfterSave(d, faiss, texts, metas, index, smetas, fail) ==
    [corpus_json |-> IF fail = "save_corpus" THEN d.corpus_json
                     ELSE Some([texts |-> texts, metas |-> metas]),
     metas_json  |-> IF faiss THEN Some(smetas) ELSE d.metas_json,
     index_faiss |-> IF faiss /\ ~index.is_none /\ fail # "save_store"
                     THEN index ELSE d.index_faiss]

SaveFails == {"none", "save_store", "save_corpus"}

\* save_index(self._storage_dir) called by the program
SaveIndex(fail) ==
    /\ _storage_dir
    /\ Faulted(fail)
    /\ fail = "save_store" => (prefer_faiss /\ ~store_index.is_none)
    /\ disk' = DiskAfterSave(disk, prefer_faiss, _corpus_texts, _corpus_metas,
                            store_index, store_metas, fail)
    /\ brain_ret' = [op |-> "save_index", raised |-> fail = "save_corpus",
                     saved |-> fail = "none"]
    /\ UNCHANGED <<ingest_calls, prefer_faiss, _storage_dir, _corpus_texts, _corpus_metas,
                   store_index, store_metas, _retrieve_cache>>
    /\ UNCHANGED kgVars
    /\ UNCHANGED memVars
    /\ UNCHANGED askVars

\* the last call ended with a save_index that wrote every file
LastCallSaved ==
    /\ brain_ret.op \in {"save_index", "ingest_raw", "remove_sources"}
    /\ brain_ret.saved

\* FaissVectorStore.load: both files or nothing; InMemoryVectorStore has no load
StoreLoaded(d, faiss) == faiss /\ ~d.metas_json.is_none /\ ~d.index_faiss.is_none

\* A fresh Brain(storage_dir=...) instance, which loads the directory, right after a save_index that wrote every file.
\* brain_ret keeps what the instance that saved returns for every query.
LoadIndex ==
    /\ _storage_dir
    /\ LastCallSaved
    /\ store_index' = IF StoreLoaded(disk, prefer_faiss) THEN disk.index_faiss ELSE None
    /\ store_metas' = IF StoreLoaded(disk, prefer_faiss) THEN disk.metas_json.v ELSE <<>>
    /\ _corpus_texts' = IF ~disk.corpus_json.is_none THEN disk.corpus_json.v.texts ELSE <<>>
    /\ _corpus_metas' = IF ~disk.corpus_json.is_none THEN disk.corpus_json.v.metas ELSE <<>>
    /\ _retrieve_cache' = <<>>
    /\ brain_ret' = [op |-> "load_index",
                     before |-> [q \in QueryInputs, k \in TopKInputs |->
                                    RetrieveResult(q, k)]]
    /\ UNCHANGED <<ingest_calls, prefer_faiss, _storage_dir, disk, faults>>
    /\ UNCHANGED kgVars
    /\ UNCHANGED memVars
    /\ UNCHANGED askVars

(***************************************************************************)
(* Brain.ingest_raw (plain {source, text} documents)                       *)
(***************************************************************************)
IngestFails == {"none", "encode", "add", "save_store", "save_corpus"}

\* fail names the step that raises:
\*   "encode"  embedder.encode_texts raises; ingest_raw logs and re-raises
\*   "add"     store.add raises (the stores raise before they change anything)
\*   "save_store", "save_corpus"  as in save_index, when a storage directory is set
IngestRaw(docs, chunk_chars, overlap, fail) ==
    LET prepared == prepare_documents(docs, chunk_chars, overlap)
        texts == [i \in 1..Len(prepared) |-> prepared[i].text]
        metas == [i \in 1..Len(prepared) |-> MetaOf(prepared[i])]
        X == encode_texts(texts)
        new_index == AddRows(store_index, X)
        new_smetas == store_metas \o metas
        new_texts == _corpus_texts \o texts
        new_metas == _corpus_metas \o metas
    IN
    /\ Len(_corpus_texts) + Len(prepared) <= MaxChunks
    /\ Rows(store_index) + Len(prepared) <= MaxChunks
    /\ Faulted(fail)
    /\ fail \in {"save_store", "save_corpus"} => _storage_dir
    /\ fail = "save_store" => prefer_faiss
    /\ docs = <<>> => fail = "none"
    /\ UNCHANGED <<ingest_calls, prefer_faiss, _storage_dir, _retrieve_cache>>
    /\ UNCHANGED kgVars
    /\ UNCHANGED memVars
    /\ UNCHANGED askVars
    /\ IF docs = <<>>
       THEN /\ brain_ret' = [op |-> "ingest_raw", raised |-> FALSE, value |-> 0,
                             saved |-> FALSE]
            /\ UNCHANGED <<_corpus_texts, _corpus_metas, store_index, store_metas, disk>>
       ELSE IF fail \in {"encode", "add"}
       THEN /\ brain_ret' = [op |-> "ingest_raw", raised |-> TRUE, value |-> NoneT,
                             saved |-> FALSE]
            /\ UNCHANGED <<_corpus_texts, _corpus_metas, store_index, store_metas, disk>>
       ELSE /\ store_index' = new_index
            /\ store_metas' = new_smetas
            /\ _corpus_texts' = new_texts
            /\ _corpus_metas' = new_metas
            /\ disk' = IF _storage_dir
                       THEN DiskAfterSave(disk, prefer_faiss, new_texts, new_metas,
                                          new_index, new_smetas, fail)
                       ELSE disk
            /\ brain_ret' = [op |-> "ingest_raw", raised |-> fail = "save_corpus",
                             value |-> IF fail = "save_corpus" THEN NoneT
                                       ELSE Len(prepared),
                             saved |-> _storage_dir /\ fail = "none"]

(***************************************************************************)
(* Brain.remove_sources                                                    *)
(***************************************************************************)
EndsWithStar(p) == Len(p) > 0 /\ p[Len(p)] = "*"

\* matches(src) of remove_sources
Matches(src, patterns) ==
    \E n \in 1..Len(patterns) :
        IF EndsWithStar(patterns[n])
        THEN StartsWith(src, SubSeq(patterns[n], 1, Len(patterns[n]) - 1))
        ELSE src = patterns[n]

RemoveFails == {"none", "encode", "save_store", "save_corpus"}

\* The rows handed to the new store: None when nothing is kept or when the
\* refit/encode raised (remove_sources logs the exception and goes on).
RebuiltRows(keep_texts, fail) ==
    IF keep_texts # <<>> /\ fail # "encode" THEN Some(encode_texts(keep_texts)) ELSE None

RemoveSources(patterns, fail) ==
    LET Kept(i) == ~Matches(_corpus_metas[i].source, patterns)
        keepIdx == SelectSeq([i \in 1..Len(_corpus_metas) |-> i], Kept)
        keep_texts == [n \in 1..Len(keepIdx) |-> _corpus_texts[keepIdx[n]]]
        keep_metas == [n \in 1..Len(keepIdx) |-> _corpus_metas[keepIdx[n]]]
        removed == Len(_corpus_metas) - Len(keepIdx)
        X == RebuiltRows(keep_texts, fail)
        added == ~X.is_none /\ Len(keep_metas) = Len(X.v)
        new_index == IF added THEN AddRows(None, X.v) ELSE None
        new_smetas == IF added THEN keep_metas ELSE <<>>
    IN
    /\ Faulted(fail)
    /\ fail \in {"save_store", "save_corpus"} => _storage_dir
    /\ fail = "save_store" => (prefer_faiss /\ ~new_index.is_none)
    /\ fail = "encode" => (patterns # <<>> /\ keep_texts # <<>>)
    /\ patterns = <<>> => fail = "none"
    /\ UNCHANGED <<ingest_calls, prefer_faiss, _storage_dir, _retrieve_cache>>
    /\ UNCHANGED kgVars
    /\ UNCHANGED memVars
    /\ UNCHANGED askVars
    /\ IF patterns = <<>>
       THEN /\ brain_ret' = [op |-> "remove_sources", raised |-> FALSE, value |-> 0,
                             patterns |-> patterns, saved |-> FALSE]
            /\ UNCHANGED <<_corpus_texts, _corpus_metas, store_index, store_metas, disk>>
       ELSE /\ _corpus_texts' = keep_texts
            /\ _corpus_metas' = keep_metas
            /\ store_index' = new_index
            /\ store_metas' = new_smetas
            /\ disk' = IF _storage_dir
                       THEN DiskAfterSave(disk, prefer_faiss, keep_texts, keep_metas,
                                          new_index, new_smetas, fail)
                       ELSE disk
            /\ brain_ret' = [op |-> "remove_sources", raised |-> fail = "save_corpus",
                             value |-> IF fail = "save_corpus" THEN NoneT ELSE removed,
                             patterns |-> patterns,
                             saved |-> _storage_dir /\ fail = "none"]

(***************************************************************************)
(* Brain: the specifications                                               *)
(***************************************************************************)
InitBrain ==
    /\ InitGraph
    /\ prefer_faiss \in BOOLEAN
    /\ _storage_dir \in BOOLEAN
    /\ BrainNew
    /\ AskNew
    /\ MemoryNew

NextBrain ==
    \/ \E docs \in DocListInputs, cc \in ChunkCharInputs, ov \in OverlapInputs,
          fail \in IngestFails : IngestRaw(docs, cc, ov, fail)
    \/ \E q \in QueryInputs, k \in TopKInputs : Retrieve(q, k)
    \/ \E patterns \in PatternInputs, fail \in RemoveFails : RemoveSources(patterns, fail)
    \/ \E fail \in SaveFails : SaveIndex(fail)
    \/ LoadIndex

\* one Brain: ingests, retrievals, removals, saves, and restarts from the directory
SpecBrain == InitBrain /\ [][NextBrain]_vars

\* the largest top_k of the retrievals of SpecCache
MaxTopK == 103

\* the top_k of the newest cache entry, 0 for an empty cache
NewestTopK == IF _retrieve_cache = <<>> THEN 0
              ELSE _retrieve_cache[Len(_retrieve_cache)].key[2]

InitCache ==
    /\ InitGraph
    /\ prefer_faiss = FALSE
    /\ _storage_dir = FALSE
    /\ BrainNew
    /\ AskNew
    /\ MemoryNew

\* retrievals of one query with top_k = 1, 2, 3, ...: each is either a key that
\* was retrieved before or the next key never retrieved
NextCache ==
    \/ /\ _corpus_texts = <<>> /\ _retrieve_cache = <<>>
       /\ IngestRaw(<<DocB>>, 2, 1, "none")
    \/ \E k \in 1..Min(MaxTopK, NewestTopK + 1) :
          /\ k = NewestTopK + 1 \/ CacheIndex(_retrieve_cache, CacheKey(<<"x">>, k)) # 0
          /\ Retrieve(<<"x">>, k)

\* one Brain whose retrieval cache fills up
SpecCache == InitCache /\ [][NextCache]_vars

(***************************************************************************)
(* Brain: the claims                                                       *)
(***************************************************************************)
\* C7: after every ingest_raw call and every remove_sources call, whether it
\* completes or hits an embedding or persistence failure, the number of chunks
\* in the Document Store (_corpus_texts and _corpus_metas) equals the number of
\* metadata entries held by the Vector Index.
C7_Original ==
    brain_ret.op \in {"ingest_raw", "remove_sources"}
    => /\ Len(_corpus_texts) = Len(store_metas)
       /\ Len(_corpus_metas) = Len(store_metas)

\* the chunks of corpus whose source matches no pattern, in their order
Survivors(corpus, metas, patterns) ==
    LET Kept(i) == ~Matches(metas[i].source, patterns)
        keepIdx == SelectSeq([i \in 1..Len(metas) |-> i], Kept)
    IN  [n \in 1..Len(keepIdx) |-> corpus[keepIdx[n]]]

\* C8: after remove_sources(patterns) the Document Store holds exactly the
\* chunks whose source matches no pattern, in their original relative order; the
\* value returned is the number of chunks removed; and the Vector Index is
\* rebuilt to hold exactly the surviving chunks.
C8_Original ==
    [][\A patterns \in PatternInputs, fail \in RemoveFails :
          RemoveSources(patterns, fail)
          => /\ _corpus_texts' = Survivors(_corpus_texts, _corpus_metas, patterns)
             /\ _corpus_metas' = Survivors(_corpus_metas, _corpus_metas, patterns)
             /\ ~brain_ret'.raised
                   => brain_ret'.value = Len(_corpus_metas) - Len(_corpus_metas')
             /\ store_metas' = _corpus_metas'
             /\ Rows(store_index') = Len(_corpus_texts')
             /\ \A i \in 1..Len(_corpus_texts') :
                   store_index'.v[i] = encode_query(_corpus_texts'[i])]_vars

\* C9: save_index(dir) followed by load_index(dir) into a fresh Brain gives, for
\* every query q and every k, the retrieve(q, k) results of the instance that
\* saved, whichever vector store (FAISS or in-memory) is in use.
C9_Original ==
    brain_ret.op = "load_index"
    => \A q \in QueryInputs, k \in TopKInputs :
          RetrieveResult(q, k) = brain_ret.before[q, k]

\* C10: after any sequence of retrieve calls with distinct (query, top_k) keys
\* the retrieval cache never holds more entries than _cache_max_size (100).
C10_Original == Len(_retrieve_cache) <= _cache_max_size

\* C11: after any sequence of ingest_raw calls (two documents of one source in
\* one call, or a source ingested again, included) no two chunks of the
\* Document Store have the same id.
C11_Original ==
    \A i, j \in 1..Len(_corpus_metas) :
        _corpus_metas[i].id = _corpus_metas[j].id => i = j

(***************************************************************************)
(* enhanced_memory.py: EnhancedMemory.  An importance is an integer number *)
(* of hundredths, a cosine similarity too; a relevance score is a number   *)
(* of thousandths.  A timestamp is the text <<day, separator, time>>: the  *)
(* day and the time have a fixed width, so the texts compare as their      *)
(* numbers do, and the separator is " " in what SQLite writes and "T" in   *)
(* what datetime.isoformat() writes.                                       *)
(***************************************************************************)
\* self.user_id, and another user of the same database
user_id == "u1"
OtherUser == "u2"

\* timedelta(days=7)
RetentionDays == 7

\* the day the clock starts on (the rows of day 1 reach the retention window),
\* its last day, and the times of a day
StartDay == RetentionDays + 1
MaxDay == StartDay + 1
TimesOfDay == 1..2

\* CURRENT_TIMESTAMP: 'YYYY-MM-DD HH:MM:SS'
SqlTimestamp(t) == <<t[1], " ", t[2]>>

\* datetime.isoformat(): 'YYYY-MM-DDTHH:MM:SS.ffffff'
IsoFormat(t) == <<t[1], "T", t[2]>>

\* the code of the separator character
SepCode(c) == IF c = " " THEN 32 ELSE 84

\* a < b for two timestamp texts (SQLite compares TEXT byte by byte)
TextLess(a, b) ==
    \/ a[1] < b[1]
    \/ a[1] = b[1] /\ SepCode(a[2]) < SepCode(b[2])
    \/ a[1] = b[1] /\ a[2] = b[2] /\ a[3] < b[3]

\* DATE(timestamp)
DateOf(ts) == ts[1]

\* the order of two timestamps that SQLite wrote, as one number
TsKey(ts) == ts[1] * 100 + ts[3]

\* f"{day} 23:59:59"
EndOfDay == 99
SummaryTimestamp(day) == <<day, " ", EndOfDay>>

\* (datetime.now() - timedelta(days=7)).isoformat()
SevenDaysAgo == IsoFormat(<<now[1] - RetentionDays, now[2]>>)

\* "if metadata": neither None nor an empty dict.  A dict is the set of its
\* keys that hold a true value.
MetaTruthy(metadata) == ~metadata.is_none /\ metadata.v # {}

\* "not content or not content.strip()"
IsBlank(content) == \A i \in 1..Len(content) : content[i] \in {" ", "\n", "\t"}

important_keywords ==
    << <<"i", "m", "p", "o", "r", "t", "a", "n", "t", "e">>,
       <<"r", "e", "c", "o", "r", "d", "a", "r">>,
       <<"s", "i", "e", "m", "p", "r", "e">>,
       <<"n", "u", "n", "c", "a">>,
       <<"p", "r", "e", "f", "e", "r", "e", "n", "c", "i", "a">>,
       <<"m", "e", " ", "g", "u", "s", "t", "a">>,
       <<"n", "o", " ", "m", "e", " ", "g", "u", "s", "t", "a">>,
       <<"q", "u", "i", "e", "r", "o">>,
       <<"n", "e", "c", "e", "s", "i", "t", "o">> >>

\* mutant of _calculate_importance: the result is not capped
CalculateImportanceUncapped(role, content, metadata) ==
    50 + (IF role = "user" THEN 10 ELSE 0)
       + (IF Len(content) > 200 THEN 10 ELSE 0)
       + (IF Len(content) > 500 THEN 10 ELSE 0)
       + (IF \E k \in 1..Len(important_keywords) :
                Contains(important_keywords[k], LowerStr(content))
          THEN 15 ELSE 0)
       + (IF MetaTruthy(metadata) /\ "tool_used" \in metadata.v THEN 10 ELSE 0)
       + (IF MetaTruthy(metadata) /\ "reasoning" \in metadata.v THEN 10 ELSE 0)

\* EnhancedMemory._calculate_importance, in hundredths
_calculate_importance(role, content, metadata) ==
    Min(50 + (IF role = "user" THEN 10 ELSE 0)
           + (IF Len(content) > 200 THEN 10 ELSE 0)
           + (IF Len(content) > 500 THEN 10 ELSE 0)
           + (IF \E k \in 1..Len(important_keywords) :
                    Contains(important_keywords[k], LowerStr(content))
              THEN 15 ELSE 0)
           + (IF MetaTruthy(metadata) /\ "tool_used" \in metadata.v THEN 10 ELSE 0)
           + (IF MetaTruthy(metadata) /\ "reasoning" \in metadata.v THEN 10 ELSE 0),
        100)

\* the default of the parameter importance of add
DefaultImportance == 50

\* one row of long_term_memory
MemoryRow(id, user, role, content, embedding, metadata, timestamp, importance, summarized) ==
    [id |-> id, user_id |-> user, role |-> role, content |-> content,
     embedding |-> embedding, metadata |-> metadata, timestamp |-> timestamp,
     importance_score |-> importance, is_summarized |-> summarized]

\* one record of short_term
ShortTermRecord(role, content, metadata, timestamp, importance) ==
    [role |-> role, content |-> content, metadata |-> metadata,
     timestamp |-> timestamp, importance |-> importance]

\* the rows of one user, in id order
RowsOf(rows, user) ==
    LET Mine(r) == r.user_id = user IN SelectSeq(rows, Mine)

RECURSIVE ConcatByKeyDesc(_, _)
\* the records of ps whose key is in keys: those of the greatest key first, the
\* records of one key in the order they have in ps
ConcatByKeyDesc(ps, keys) ==
    IF keys = {} THEN <<>>
    ELSE LET k == CHOOSE x \in keys : \A y \in keys : x >= y
             HasKey(r) == r.key = k
         IN  SelectSeq(ps, HasKey) \o ConcatByKeyDesc(ps, keys \ {k})

\* a stable sort of [key, val] records by descending key
SortByKeyDesc(ps) == ConcatByKeyDesc(ps, {ps[i].key : i \in 1..Len(ps)})

Reverse(sq) == [i \in 1..Len(sq) |-> sq[Len(sq) + 1 - i]]

\* ORDER BY timestamp DESC.  SQL fixes no order among rows of one timestamp:
\* rowid_asc tells whether such rows come out in ascending or descending id.
OrderByTimestampDesc(rows, rowid_asc) ==
    LET base == IF rowid_asc THEN rows ELSE Reverse(rows)
        keyed == [i \in 1..Len(base) |-> [key |-> TsKey(base[i].timestamp), val |-> base[i]]]
        sorted == SortByKeyDesc(keyed)
    IN  [i \in 1..Len(sorted) |-> sorted[i].val]

\* sq[:n] for n >= 0
Take(sq, n) == SubSeq(sq, 1, Min(n, Len(sq)))

\* _load_recent_memory: the max_short_term newest rows of the user, oldest first
_load_recent_memory(rows, n, rowid_asc) ==
    LET newest == Take(OrderByTimestampDesc(RowsOf(rows, user_id), rowid_asc), n)
        chrono == Reverse(newest)
    IN  [i \in 1..Len(chrono) |->
            ShortTermRecord(chrono[i].role, chrono[i].content,
                            IF chrono[i].metadata.is_none THEN {} ELSE chrono[i].metadata.v,
                            chrono[i].timestamp, chrono[i].importance_score)]

(***************************************************************************)
(* _compress_old_memory_if_needed / _compress_old_conversations            *)
(***************************************************************************)
\* "SELECT COUNT(*) ... WHERE user_id = ? AND timestamp < ? AND is_summarized = 0"
OldUnsummarized(rows, cutoff) ==
    {i \in 1..Len(rows) : /\ rows[i].user_id = user_id
                          /\ TextLess(rows[i].timestamp, cutoff)
                          /\ ~rows[i].is_summarized}

\* "if old_count > 100"
CompressThreshold == 100

\* the days of the SELECT ... GROUP BY DATE(timestamp) ORDER BY day
OldDays(rows, cutoff) == {DateOf(rows[i].timestamp) : i \in OldUnsummarized(rows, cutoff)}

RECURSIVE SetToSortedSeq(_)
SetToSortedSeq(S) ==
    IF S = {} THEN <<>>
    ELSE LET m == CHOOSE x \in S : \A y \in S : x <= y
         IN  <<m>> \o SetToSortedSeq(S \ {m})

\* the separator of GROUP_CONCAT(content, '\n---\n')
GroupSeparator == <<"\n", "-", "-", "-", "\n">>

RECURSIVE GroupConcat(_)
\* the contents joined by the separator (the list is split in halves)
GroupConcat(contents) ==
    IF contents = <<>> THEN <<>>
    ELSE IF Len(contents) = 1 THEN contents[1]
    ELSE LET half == Len(contents) \div 2
         IN  GroupConcat(SubSeq(contents, 1, half)) \o GroupSeparator
             \o GroupConcat(SubSeq(contents, half + 1, Len(contents)))

\* the ids of the rows of one day that the SELECT groups, in id order
GroupIds(rows, cutoff, day) ==
    LET InGroup(i) == /\ rows[i].user_id = user_id
                      /\ TextLess(rows[i].timestamp, cutoff)
                      /\ ~rows[i].is_summarized
                      /\ DateOf(rows[i].timestamp) = day
    IN  SelectSeq([i \in 1..Len(rows) |-> i], InGroup)

\* summarize(combined_content, max_chars=500)
SummaryMaxChars == 500

\* LLMClient.summarize without a model: the text, cut at max_chars
Summarize(text, max_chars) ==
    IF Len(text) > max_chars THEN SubSeq(text, 1, max_chars) \o <<".", ".", ".">> ELSE text

\* the digit of a day
Digit(d) ==
    CASE d = 0 -> "0" [] d = 1 -> "1" [] d = 2 -> "2" [] d = 3 -> "3" [] d = 4 -> "4"
      [] d = 5 -> "5" [] d = 6 -> "6" [] d = 7 -> "7" [] d = 8 -> "8" [] OTHER -> "9"

\* f"Resumen del {day}: {summary}": the day, then the summary
SummaryContent(day, summary) == <<Digit(day), ":", " ">> \o summary

\* the text handed to encode_query for a summary (the day holds no "x" and no "y")
SummaryEmbedding(summary) == encode_query(summary)

\* mutant of CompressDay: the summary is inserted, the rows of the day are not
\* flagged
CompressDayNoUpdate(rows, cutoff_rows, cutoff, day, failed) ==
    LET ids == GroupIds(cutoff_rows, cutoff, day)
        combined == GroupConcat([n \in 1..Len(ids) |-> cutoff_rows[ids[n]].content])
        summary == Summarize(combined, SummaryMaxChars)
    IN  IF day \in failed \/ combined = <<>> THEN rows
        ELSE Append(rows,
                    MemoryRow(Len(rows) + 1, user_id, "system",
                              SummaryContent(day, summary),
                              Some(SummaryEmbedding(summary)), None,
                              SummaryTimestamp(day), 70, TRUE))

\* one pass of the loop "for day, combined_content in rows": the table after the
\* INSERT of the summary and the UPDATE of the rows of the day.  A day in
\* failed is one whose summarize or encode_query raises: nothing is written.
CompressDay(rows, cutoff_rows, cutoff, day, failed) ==
    LET ids == GroupIds(cutoff_rows, cutoff, day)
        combined == GroupConcat([n \in 1..Len(ids) |-> cutoff_rows[ids[n]].content])
        summary == Summarize(combined, SummaryMaxChars)
        inserted == Append(rows,
                      MemoryRow(Len(rows) + 1, user_id, "system",
                                SummaryContent(day, summary),
                                Some(SummaryEmbedding(summary)), None,
                                SummaryTimestamp(day), 70, TRUE))
    IN  IF day \in failed \/ combined = <<>> THEN rows
        ELSE [i \in 1..Len(inserted) |->
                IF /\ inserted[i].user_id = user_id
                   /\ DateOf(inserted[i].timestamp) = day
                   /\ ~inserted[i].is_summarized
                THEN [inserted[i] EXCEPT !.is_summarized = TRUE]
                ELSE inserted[i]]

RECURSIVE CompressDays(_, _, _, _, _)
CompressDays(rows, cutoff_rows, cutoff, days, failed) ==
    IF days = <<>> THEN rows
    ELSE CompressDays(CompressDay(rows, cutoff_rows, cutoff, days[1], failed),
                      cutoff_rows, cutoff, Tail(days), failed)

\* _compress_old_conversations(cutoff_date, conn): the table afterwards
CompressOldConversationsRows(rows, cutoff, failed) ==
    IF ~llm_client THEN rows
    ELSE CompressDays(rows, rows, cutoff, SetToSortedSeq(OldDays(rows, cutoff)), failed)

\* what a compaction run did: for every day of the SELECT, the ids of the rows
\* whose content was summarized and whether the summary was written
CompactionLog(rows, cutoff, failed) ==
    LET days == SetToSortedSeq(OldDays(rows, cutoff))
    IN  [n \in 1..Len(days) |->
            [day |-> days[n],
             ids |-> {i \in OldUnsummarized(rows, cutoff) :
                         DateOf(rows[i].timestamp) = days[n]},
             written |-> days[n] \notin failed]]

\* _compress_old_memory_if_needed runs the compaction
CompactionDue(rows, cutoff) == Cardinality(OldUnsummarized(rows, cutoff)) > CompressThreshold

(***************************************************************************)
(* EnhancedMemory.add                                                      *)
(***************************************************************************)
\* mutant of ShortTermPut: the newest record is dropped instead of the oldest
ShortTermPutDropNewest(records, rec, n) ==
    LET grown == Append(records, rec)
    IN  IF Len(grown) > n THEN SubSeq(grown, 1, Len(grown) - 1) ELSE grown

\* short_term.append(rec), then "if len(short_term) > max_short_term: pop(0)"
ShortTermPut(records, rec, n) ==
    LET grown == Append(records, rec)
    IN  IF Len(grown) > n THEN Tail(grown) ELSE grown

\* the value of the parameter importance: the default when the caller gives none
BoundImportance(arg) == IF arg.is_none THEN DefaultImportance ELSE arg.v

\* the importance add stores for the argument arg (None, or Some(value))
StoredImportance(role, content, metadata, arg) ==
    IF BoundImportance(arg) = DefaultImportance
    THEN _calculate_importance(role, content, metadata)
    ELSE BoundImportance(arg)

\* the table after the INSERT of add
RowsAfterInsert(rows, role, content, metadata, importance, embed_ok) ==
    Append(rows,
           MemoryRow(Len(rows) + 1, user_id, role, content,
                     IF embed_ok THEN Some(encode_query(content)) ELSE None,
                     IF MetaTruthy(metadata) THEN Some(metadata.v) ELSE None,
                     SqlTimestamp(now),
                     StoredImportance(role, content, metadata, importance),
                     FALSE))

\* add(role, content, metadata, importance=...); importance is None when the
\* caller gives no importance, Some(value) otherwise.  embed_ok is FALSE when
\* encode_query raises (the row is stored without an embedding); failed holds
\* the days whose summary fails if the compaction runs.
Add(role, content, metadata, importance, embed_ok, failed) ==
    LET inserted == RowsAfterInsert(long_term_memory, role, content, metadata,
                                    importance, embed_ok)
        runs == CompactionDue(inserted, SevenDaysAgo) /\ llm_client
    IN
    /\ UNCHANGED <<max_short_term, llm_client, now>>
    /\ UNCHANGED kgVars
    /\ UNCHANGED brainVars
    /\ UNCHANGED askVars
    /\ IF IsBlank(content)
       THEN /\ embed_ok /\ failed = {}
            /\ UNCHANGED <<long_term_memory, short_term>>
            /\ mem_ret' = [op |-> "add", stored |-> FALSE, role |-> role,
                           content |-> content, metadata |-> metadata,
                           importance |-> importance]
       ELSE /\ failed \subseteq (IF runs THEN OldDays(inserted, SevenDaysAgo) ELSE {})
            /\ short_term' =
                  ShortTermPut(short_term,
                               ShortTermRecord(role, content,
                                   IF MetaTruthy(metadata) THEN metadata.v ELSE {},
                                   IsoFormat(now),
                                   StoredImportance(role, content, metadata, importance)),
                               max_short_term)
            /\ long_term_memory' =
                  IF CompactionDue(inserted, SevenDaysAgo)
                  THEN CompressOldConversationsRows(inserted, SevenDaysAgo, failed)
                  ELSE inserted
            /\ mem_ret' = [op |-> "add", stored |-> TRUE, role |-> role,
                           content |-> content, metadata |-> metadata,
                           importance |-> importance,
                           id |-> Len(inserted),
                           compacted |-> runs,
                           cutoff |-> SevenDaysAgo,
                           log |-> IF runs
                                   THEN CompactionLog(inserted, SevenDaysAgo, failed)
                                   ELSE <<>>]

\* _compress_old_conversations(seven_days_ago, conn) called on its own
CompressOldConversations(failed) ==
    /\ failed \subseteq (IF llm_client THEN OldDays(long_term_memory, SevenDaysAgo) ELSE {})
    /\ long_term_memory' = CompressOldConversationsRows(long_term_memory, SevenDaysAgo, failed)
    /\ mem_ret' = [op |-> "_compress_old_conversations",
                   compacted |-> llm_client,
                   cutoff |-> SevenDaysAgo,
                   log |-> IF llm_client
                           THEN CompactionLog(long_term_memory, SevenDaysAgo, failed)
                           ELSE <<>>]
    /\ UNCHANGED <<short_term, max_short_term, llm_client, now>>
    /\ UNCHANGED kgVars
    /\ UNCHANGED brainVars
    /\ UNCHANGED askVars

(***************************************************************************)
(* EnhancedMemory.get_relevant / _cosine_similarity                        *)
(***************************************************************************)
\* the integer part of the square root of n, for 0 <= n <= 10000
ISqrt(n) == CHOOSE r \in 0..100 : r * r <= n /\ (r + 1) * (r + 1) > n

\* _cosine_similarity(vec1, vec2) in hundredths, for vectors without negative entries
_cosine_similarity(vec1, vec2) ==
    LET dot == Dot(vec1, vec2)
        n1 == Dot(vec1, vec1)
        n2 == Dot(vec2, vec2)
    IN  IF n1 = 0 \/ n2 = 0 THEN 0
        ELSE ISqrt((dot * dot * 10000) \div (n1 * n2))

\* "LIMIT 100" of get_relevant
RelevantScanLimit == 100

\* mutant of RelevanceScore: the importance is left out
RelevanceScoreSimilarityOnly(similarity, importance) == 7 * similarity

\* score = similarity * 0.7 + importance * 0.3, in thousandths
RelevanceScore(similarity, importance) == 7 * similarity + 3 * importance

\* the rows of the SELECT of get_relevant, in the order it returns them
RelevantRows(rows, min_importance, rowid_asc) ==
    LET Eligible(r) == /\ r.user_id = user_id
                       /\ r.importance_score >= min_importance
                       /\ ~r.embedding.is_none
    IN  Take(OrderByTimestampDesc(SelectSeq(rows, Eligible), rowid_asc), RelevantScanLimit)

\* what get_relevant(query, limit, min_importance) returns
GetRelevantResult(rows, query, limit, min_importance, rowid_asc) ==
    LET scanned == RelevantRows(rows, min_importance, rowid_asc)
        results == [i \in 1..Len(scanned) |->
                      [key |-> RelevanceScore(
                                  _cosine_similarity(encode_query(query), scanned[i].embedding.v),
                                  scanned[i].importance_score),
                       val |-> scanned[i]]]
        sorted == SortByKeyDesc(results)
        top == Take(sorted, limit)
    IN  [i \in 1..Len(top) |->
            [id |-> top[i].val.id, role |-> top[i].val.role,
             content |-> top[i].val.content,
             metadata |-> IF top[i].val.metadata.is_none THEN {} ELSE top[i].val.metadata.v,
             timestamp |-> top[i].val.timestamp,
             importance |-> top[i].val.importance_score,
             relevance_score |-> top[i].key]]

GetRelevant(query, limit, min_importance, rowid_asc) ==
    /\ mem_ret' = [op |-> "get_relevant", query |-> query, limit |-> limit,
                   min_importance |-> min_importance,
                   results |-> GetRelevantResult(long_term_memory, query, limit,
                                                 min_importance, rowid_asc)]
    /\ UNCHANGED <<long_term_memory, short_term, max_short_term, llm_client, now>>
    /\ UNCHANGED kgVars
    /\ UNCHANGED brainVars
    /\ UNCHANGED askVars

(***************************************************************************)
(* The clock                                                               *)
(***************************************************************************)
\* time passes, up to the time last
Tick(last) ==
    /\ now # last
    /\ now' = IF now[2] + 1 \in TimesOfDay THEN <<now[1], now[2] + 1>>
              ELSE <<now[1] + 1, 1>>
    /\ UNCHANGED <<long_term_memory, short_term, max_short_term, llm_client, mem_ret>>
    /\ UNCHANGED kgVars
    /\ UNCHANGED brainVars
    /\ UNCHANGED askVars

(***************************************************************************)
(* EnhancedMemory: inputs and specifications                               *)
(***************************************************************************)
\* a call of add: role, content, metadata, importance, encode_query succeeds
AddCall(role, content, metadata, importance, embed_ok) ==
    [role |-> role, content |-> content, metadata |-> metadata,
     importance |-> importance, embed_ok |-> embed_ok]

AddInputs ==
    { AddCall("user", <<"x">>, None, None, TRUE),
      AddCall("assistant", <<"y">>, Some({"tool_used"}), Some(30), TRUE),
      AddCall("user", <<"x", "x", "x", "y", "y", "y", "y">>, Some({}),
              Some(DefaultImportance), FALSE),
      AddCall("user", <<" ">>, None, None, TRUE) }

\* (query, limit, min_importance) of the get_relevant calls
RelevantInputs ==
    { << <<"x">>, 5, 30 >>, << <<"y">>, 1, 60 >> }

\* the largest max_short_term, and the largest number of rows added after Init
MaxShortTerm == 2
MaxAdds == 7

\* the rows stored since the clock started (no summary is among them)
Added == Cardinality({i \in 1..Len(long_term_memory) :
                         /\ DateOf(long_term_memory[i].timestamp) >= StartDay
                         /\ long_term_memory[i].role # "system"})

\* EnhancedMemory(db_path, embedder, max_short_term=n) on a new database file
InitMem ==
    /\ InitGraph
    /\ prefer_faiss = TRUE
    /\ _storage_dir = FALSE
    /\ BrainNew
    /\ AskNew
    /\ long_term_memory = <<>>
    /\ short_term = <<>>
    /\ max_short_term \in 1..MaxShortTerm
    /\ llm_client = TRUE
    /\ now = <<StartDay, 1>>
    /\ mem_ret = [op |-> "init"]

NextMem ==
    \E c \in AddInputs :
        /\ Added < max_short_term + 5
        /\ Added < MaxAdds
        /\ Add(c.role, c.content, c.metadata, c.importance, c.embed_ok, {})

\* one EnhancedMemory on a new database: a sequence of add calls
SpecMem == InitMem /\ [][NextMem]_vars

(***************************************************************************)
(* EnhancedMemory on a database that earlier sessions filled               *)
(***************************************************************************)
\* a row an earlier add("user", content) stored at the time <<day, tod>>
EarlierRow(id, user, day, tod, content, embed_ok) ==
    MemoryRow(id, user, "user", content,
              IF embed_ok THEN Some(encode_query(content)) ELSE None,
              None, SqlTimestamp(<<day, tod>>),
              _calculate_importance("user", content, None), FALSE)

\* 101 rows of the user on day 1 in the evening, and one row of another user
LayoutOneDay ==
    [i \in 1..102 |->
        IF i <= 101 THEN EarlierRow(i, user_id, 1, 2, <<"x">>, TRUE)
        ELSE EarlierRow(i, OtherUser, 1, 2, <<"x">>, TRUE)]

\* 60 rows of the user on day 1 and 42 on day 2 (the last one without an
\* embedding), and one row of another user
LayoutTwoDays ==
    [i \in 1..103 |->
        IF i <= 60 THEN EarlierRow(i, user_id, 1, 1, <<"x">>, TRUE)
        ELSE IF i <= 101 THEN EarlierRow(i, user_id, 2, 1, <<"y">>, TRUE)
        ELSE IF i = 102 THEN EarlierRow(i, OtherUser, 1, 1, <<"x">>, TRUE)
        ELSE EarlierRow(i, user_id, 2, 2, <<"x">>, FALSE)]

\* 100 rows of the user on day 1: the threshold is not passed
LayoutAtThreshold == [i \in 1..100 |-> EarlierRow(i, user_id, 1, 1, <<"x">>, TRUE)]

Layouts == {LayoutOneDay, LayoutTwoDays, LayoutAtThreshold}

\* the adds of the long-term specification
LongTermAddInputs ==
    { AddCall("user", <<"x">>, None, None, TRUE),
      AddCall("assistant", <<"y">>, Some({"tool_used"}), Some(30), TRUE) }

\* the largest number of rows added after Init in the long-term specification
MaxLongTermAdds == 1

\* EnhancedMemory(db_path, embedder, llm_client=...) on a filled database:
\* __init__ loads the newest rows into short_term
InitLongTerm ==
    /\ InitGraph
    /\ prefer_faiss = TRUE
    /\ _storage_dir = FALSE
    /\ BrainNew
    /\ AskNew
    /\ long_term_memory \in Layouts
    /\ max_short_term = MaxShortTerm
    /\ \E rowid_asc \in BOOLEAN :
          short_term = _load_recent_memory(long_term_memory, max_short_term, rowid_asc)
    /\ llm_client \in BOOLEAN
    /\ now = <<StartDay, 1>>
    /\ mem_ret = [op |-> "init"]

NextLongTerm ==
    \/ \E c \in LongTermAddInputs, failed \in SUBSET (1..2) :
          /\ Added < MaxLongTermAdds
          /\ Add(c.role, c.content, c.metadata, c.importance, c.embed_ok, failed)
    \/ \E failed \in SUBSET (1..2) : CompressOldConversations(failed)
    \/ \E r \in RelevantInputs, rowid_asc \in BOOLEAN :
          GetRelevant(r[1], r[2], r[3], rowid_asc)
    \/ Tick(<<MaxDay, 1>>)

\* one EnhancedMemory on a filled database: adds, compaction runs, semantic
\* retrievals, and the passing of time
SpecLongTerm == InitLongTerm /\ [][NextLongTerm]_vars

(***************************************************************************)
(* _calculate_importance as a function of its arguments                    *)
(***************************************************************************)
\* a content of n characters that holds no keyword
Pad(n) == [i \in 1..n |-> "."]

ImportanceRoles == {"user", "assistant", "system"}

\* contents on both sides of the two length thresholds, with and without a
\* keyword, in lower and in upper case
ImportanceContents ==
    { <<>>, <<"x">>, Pad(200), Pad(201), Pad(500), Pad(501),
      important_keywords[8],
      <<"N", "U", "N", "C", "A">>,
      Pad(195) \o important_keywords[6],
      Pad(495) \o important_keywords[6] }

ImportanceMetadata ==
    { None, Some({}), Some({"tool_used"}), Some({"reasoning"}),
      Some({"tool_used", "reasoning"}) }

\* self._calculate_importance(role, content, metadata)
CalculateImportance ==
    /\ mem_ret.op = "input"
    /\ mem_ret' = [op |-> "_calculate_importance", role |-> mem_ret.role,
                   content |-> mem_ret.content, metadata |-> mem_ret.metadata,
                   value |-> _calculate_importance(mem_ret.role, mem_ret.content,
                                                   mem_ret.metadata)]
    /\ UNCHANGED <<long_term_memory, short_term, max_short_term, llm_client, now>>
    /\ UNCHANGED kgVars
    /\ UNCHANGED brainVars
    /\ UNCHANGED askVars

InitImportance ==
    /\ InitGraph
    /\ prefer_faiss = TRUE
    /\ _storage_dir = FALSE
    /\ BrainNew
    /\ AskNew
    /\ long_term_memory = <<>>
    /\ short_term = <<>>
    /\ max_short_term = MaxShortTerm
    /\ llm_client = FALSE
    /\ now = <<StartDay, 1>>
    /\ mem_ret \in {[op |-> "input", role |-> r, content |-> c, metadata |-> m] :
                      r \in ImportanceRoles, c \in ImportanceContents,
                      m \in ImportanceMetadata}

NextImportance == CalculateImportance

\* _calculate_importance applied to one (role, content, metadata)
SpecImportance == InitImportance /\ [][NextImportance]_vars

(***************************************************************************)
(* EnhancedMemory: properties                                              *)
(***************************************************************************)
\* C12: for every N = max_short_term the short-term tier never holds more than
\* N records; it holds the last min(N, number of inserts) records that were
\* inserted, oldest first (so after N + 5 inserts exactly the last N).
C12_ShortTermHoldsLastN ==
    LET n == Len(long_term_memory)
        k == Len(short_term)
    IN  /\ k <= max_short_term
        /\ k = Min(max_short_term, n)
        /\ \A i \in 1..k :
              LET row == long_term_memory[n - k + i]
              IN  /\ short_term[i].role = row.role
                  /\ short_term[i].content = row.content
                  /\ short_term[i].importance = row.importance_score
                  /\ short_term[i].timestamp[1] = row.timestamp[1]
                  /\ short_term[i].timestamp[3] = row.timestamp[3]

\* N + 5 records were inserted into a tier of the largest size, and the oldest
\* of them is no longer in the tier
C12_Witness ==
    /\ max_short_term = MaxShortTerm
    /\ Added = max_short_term + 5
    /\ Len(short_term) = max_short_term
    /\ \E i \in 1..Len(long_term_memory) :
          \A j \in 1..Len(short_term) :
              short_term[j].content # long_term_memory[i].content

\* C13: add stores the importance the caller supplies unchanged whenever the
\* caller supplies one, and computes one with _calculate_importance only when
\* the caller supplies none.
C13_Original ==
    [][\A c \in AddInputs :
          (Add(c.role, c.content, c.metadata, c.importance, c.embed_ok, {})
              /\ ~IsBlank(c.content))
          => long_term_memory'[Len(long_term_memory) + 1].importance_score =
                IF c.importance.is_none
                THEN _calculate_importance(c.role, c.content, c.metadata)
                ELSE c.importance.v]_vars

\* C14: _calculate_importance lies within [0, 1] and equals
\* min(1.0, 0.5 + 0.1 for the role user + 0.1 for more than 200 characters
\* + 0.1 for more than 500 characters + 0.15 for a keyword + 0.1 for each of
\* the flags tool_used and reasoning).
C14_ImportanceFormula ==
    mem_ret.op = "_calculate_importance" =>
        LET flags == IF mem_ret.metadata.is_none THEN {}
                     ELSE mem_ret.metadata.v \cap {"tool_used", "reasoning"}
            keyword == \E k \in 1..Len(important_keywords) :
                          Contains(important_keywords[k], LowerStr(mem_ret.content))
            sum == 50 + (IF mem_ret.role = "user" THEN 10 ELSE 0)
                      + (IF Len(mem_ret.content) > 200 THEN 10 ELSE 0)
                      + (IF Len(mem_ret.content) > 500 THEN 10 ELSE 0)
                      + (IF keyword THEN 15 ELSE 0)
                      + 10 * Cardinality(flags)
        IN  /\ mem_ret.value \in 0..100
            /\ mem_ret.value = Min(100, sum)

\* every bonus applies: the sum is 1.15 and the result is 1.0
C14_Witness ==
    /\ mem_ret.op = "_calculate_importance"
    /\ mem_ret.role = "user"
    /\ Len(mem_ret.content) > 500
    /\ Contains(important_keywords[6], mem_ret.content)
    /\ mem_ret.metadata = Some({"tool_used", "reasoning"})
    /\ mem_ret.value = 100

\* C15: get_relevant returns only records of the calling user whose importance
\* is at least min_importance and whose embedding is not null, taken from the
\* 100 most recent such records of that user; it returns at most limit of
\* them, ordered by 0.7 * cosine similarity + 0.3 * importance descending,
\* records of one score most recent first.
C15_GetRelevant ==
    mem_ret.op = "get_relevant" =>
        LET res == mem_ret.results
            rows == long_term_memory
            Eligible == {i \in 1..Len(rows) :
                            /\ rows[i].user_id = user_id
                            /\ rows[i].importance_score >= mem_ret.min_importance
                            /\ ~rows[i].embedding.is_none}
            Score(i) == 7 * _cosine_similarity(encode_query(mem_ret.query),
                                               rows[i].embedding.v)
                        + 3 * rows[i].importance_score
            Newer(i) == {j \in Eligible :
                            TsKey(rows[j].timestamp) > TsKey(rows[i].timestamp)}
        IN  /\ Len(res) <= mem_ret.limit
            /\ \A n \in 1..Len(res) :
                  /\ res[n].id \in Eligible
                  /\ Cardinality(Newer(res[n].id)) < 100
                  /\ res[n].relevance_score = Score(res[n].id)
                  /\ res[n].content = rows[res[n].id].content
                  /\ res[n].importance = rows[res[n].id].importance_score
            /\ \A n, m \in 1..Len(res) : res[n].id = res[m].id => n = m
            /\ \A n \in 1..(Len(res) - 1) :
                  \/ res[n].relevance_score > res[n + 1].relevance_score
                  \/ /\ res[n].relevance_score = res[n + 1].relevance_score
                     /\ TsKey(res[n].timestamp) >= TsKey(res[n + 1].timestamp)

\* a retrieval over more than 100 eligible rows, next to a row of another user
\* and a row without an embedding, that returns limit records, two of them with
\* one score and different timestamps
C15_Witness ==
    /\ mem_ret.op = "get_relevant"
    /\ Len(mem_ret.results) = mem_ret.limit
    /\ Cardinality({i \in 1..Len(long_term_memory) :
                       /\ long_term_memory[i].user_id = user_id
                       /\ long_term_memory[i].importance_score >= mem_ret.min_importance
                       /\ ~long_term_memory[i].embedding.is_none}) > 100
    /\ \E i \in 1..Len(long_term_memory) : long_term_memory[i].user_id = OtherUser
    /\ \E i \in 1..Len(long_term_memory) :
          /\ long_term_memory[i].user_id = user_id
          /\ long_term_memory[i].embedding.is_none
    /\ \E n \in 1..(Len(mem_ret.results) - 1) :
          /\ mem_ret.results[n].relevance_score = mem_ret.results[n + 1].relevance_score
          /\ TsKey(mem_ret.results[n].timestamp) > TsKey(mem_ret.results[n + 1].timestamp)

\* what a compaction run that took the table from pre to post, with the log
\* log, has to have done when the summarizer succeeds: one new summary row
\* (role system, is_summarized) per day of the log and no other new row, every
\* source row of a day flagged, every newly flagged row among the summarized
\* ones, and every earlier row kept as it was but for the flag
CompactionEffects(pre, post, log) ==
    LET New == (Len(pre) + 1)..Len(post)
        Summarized == UNION {log[n].ids : n \in 1..Len(log)}
    IN  /\ Len(post) = Len(pre) + Len(log)
        /\ \A n \in 1..Len(log) :
              Cardinality({i \in New : /\ post[i].user_id = user_id
                                       /\ post[i].role = "system"
                                       /\ post[i].is_summarized
                                       /\ DateOf(post[i].timestamp) = log[n].day}) = 1
        /\ \A i \in Summarized : post[i].is_summarized
        /\ \A i \in 1..Len(pre) :
              /\ (post[i].is_summarized /\ ~pre[i].is_summarized) => i \in Summarized
              /\ [post[i] EXCEPT !.is_summarized = pre[i].is_summarized] = pre[i]

\* C16: add triggers the compaction only when more than 100 un-summarized
\* records of the user are older than 7 days; when it runs and the summarizer
\* succeeds, every calendar day that had such records gets exactly one new
\* summary record (role system, is_summarized), every source record of that
\* day is flagged is_summarized, every flagged record was part of the
\* summarized text, and no record is deleted.
C16_Original ==
    [][\A c \in LongTermAddInputs, failed \in SUBSET (1..2) :
          Add(c.role, c.content, c.metadata, c.importance, c.embed_ok, failed) =>
             LET inserted == RowsAfterInsert(long_term_memory, c.role, c.content,
                                             c.metadata, c.importance, c.embed_ok)
                 Older(ts) == \/ ts[1] < now[1] - RetentionDays
                              \/ ts[1] = now[1] - RetentionDays /\ ts[3] < now[2]
                 old == {i \in 1..Len(inserted) :
                            /\ inserted[i].user_id = user_id
                            /\ ~inserted[i].is_summarized
                            /\ Older(inserted[i].timestamp)}
             IN  /\ mem_ret'.compacted => Cardinality(old) > 100
                 /\ (mem_ret'.compacted /\ failed = {}) =>
                       /\ CompactionEffects(inserted, long_term_memory', mem_ret'.log)
                       /\ {mem_ret'.log[n].day : n \in 1..Len(mem_ret'.log)} =
                             {DateOf(inserted[i].timestamp) : i \in old}]_vars

_max_chars == 4000

RECURSIVE TotalChars(_)
\* the sum of len(msg["content"]) over messages
TotalChars(messages) ==
    IF messages = <<>> THEN 0
    ELSE Len(messages[1].content) + TotalChars(Tail(messages))

\* the k newest messages
LastMessages(messages, k) == SubSeq(messages, Len(messages) - k + 1, Len(messages))

\* ChatMemory._trim: walk the messages from the newest, keep each one, and stop
\* after the one with which the total reaches max_chars
_trim(messages, max_chars) ==
    LET Full == {k \in 1..Len(messages) :
                    TotalChars(LastMessages(messages, k)) >= max_chars}
    IN  IF Full = {} THEN messages
        ELSE LastMessages(messages, CHOOSE k \in Full : \A j \in Full : k <= j)

\* ChatMemory.add(role, content)
ChatMemoryAdd(messages, role, content) ==
    _trim(Append(messages, [role |-> role, content |-> content]), _max_chars)

\* the parameters of ChatMemory.add
AddParams == {"role", "content"}

\* the call self.enhanced_memory.add(role, content, **keywords): enhanced_memory
\* is the ChatMemory, and a keyword that add does not declare raises TypeError
\* before the body runs
CallAdd(messages, role, content, keywords) ==
    IF keywords \subseteq AddParams
    THEN [raised |-> FALSE, messages |-> ChatMemoryAdd(messages, role, content)]
    ELSE [raised |-> TRUE, messages |-> messages]

\* "try: add('user', question, ...); add('assistant', answer, ...) except: log":
\* the messages afterwards
SaveTurn(messages, question, answer, kw_user, kw_assistant) ==
    LET first == CallAdd(messages, "user", question, kw_user)
    IN  IF first.raised THEN messages
        ELSE CallAdd(first.messages, "assistant", answer, kw_assistant).messages

(***************************************************************************)
(* tools.py: ToolSystem.detect_tool                                        *)
(***************************************************************************)
HasAny(words, q) == \E w \in words : Contains(w, q)

IsDigit(c) == c \in {"0", "1", "2", "3", "4", "5", "6", "7", "8", "9"}

\* detect_tool(query, llm): the first tool whose keywords the query holds
detect_tool(query) ==
    LET q == LowerStr(query)
        VisualizerWords ==
            { <<"v", "e", "r">>,
              <<"m", "o", "s", "t", "r", "a", "r">>,
              <<"v", "i", "s", "u", "a", "l", "i", "z", "a", "r">>,
              <<"s", "h", "o", "w">>,
              <<"d", "i", "s", "p", "l", "a", "y">>,
              <<"d", "i", "a", "g", "r", "a", "m", "a">>,
              <<"i", "m", "a", "g", "e", "n">>,
              <<"f", "o", "t", "o">>,
              <<"e", "s", "q", "u", "e", "m", "a">> }
        CalculatorWords ==
            { <<"c", "a", "l", "c", "u", "l", "a">>,
              <<"c", "u", "á", "n", "t", "o", " ", "e", "s">>,
              <<"c", "a", "l", "c", "u", "l", "a", "t", "e">>,
              <<"s", "o", "l", "v", "e">>,
              <<"+">>,
              <<"*">>,
              <<"/">> }
        DatetimeWords ==
            { <<"h", "o", "r", "a">>,
              <<"f", "e", "c", "h", "a">>,
              <<"t", "i", "m", "e">>,
              <<"d", "a", "t", "e">>,
              <<"h", "o", "y">>,
              <<"t", "o", "d", "a", "y">> }
        PythonWords ==
            { <<"p", "y", "t", "h", "o", "n">>,
              <<"c", "ó", "d", "i", "g", "o">>,
              <<"c", "o", "d", "e">>,
              <<"s", "c", "r", "i", "p", "t">>,
              <<"f", "u", "n", "c", "i", "ó", "n">>,
              <<"a", "l", "g", "o", "r", "i", "t", "m", "o">> }
        WebSearchWords ==
            { <<"b", "u", "s", "c", "a">>,
              <<"s", "e", "a", "r", "c", "h">>,
              <<"g", "o", "o", "g", "l", "e">>,
              <<"i", "n", "t", "e", "r", "n", "e", "t">>,
              <<"n", "o", "t", "i", "c", "i", "a", "s">>,
              <<"c", "l", "i", "m", "a">>,
              <<"w", "e", "a", "t", "h", "e", "r">>,
              <<"n", "e", "w", "s">> }
        FinanceWords ==
            { <<"s", "a", "l", "d", "o">>,
              <<"b", "a", "l", "a", "n", "c", "e">>,
              <<"c", "u", "e", "n", "t", "a">>,
              <<"d", "i", "n", "e", "r", "o">>,
              <<"b", "a", "n", "c", "o">>,
              <<"t", "r", "a", "n", "s", "a", "c", "c", "i", "ó", "n">>,
              <<"a", "s", "i", "e", "n", "t", "o">>,
              <<"c", "o", "n", "t", "a", "b", "i", "l", "i", "d", "a", "d">>,
              <<"f", "i", "n", "a", "n", "c", "e">>,
              <<"m", "o", "n", "e", "y">>,
              <<"b", "u", "d", "g", "e", "t">>,
              <<"p", "r", "e", "s", "u", "p", "u", "e", "s", "t", "o">> }
    IN  IF HasAny(VisualizerWords, q) THEN "visualizer"
        ELSE IF HasAny(CalculatorWords, q) /\ \E i \in 1..Len(q) : IsDigit(q[i])
             THEN "calculator"
        ELSE IF HasAny(DatetimeWords, q) THEN "datetime"
        ELSE IF HasAny(PythonWords, q) THEN "python_repl"
        ELSE IF HasAny(WebSearchWords, q) THEN "web_search"
        ELSE IF HasAny(FinanceWords, q) THEN "finance_tool"
        ELSE NoneT

(***************************************************************************)
(* brain.py: Brain.ask                                                     *)
(***************************************************************************)
\* the tools whose result is the answer, and those whose result the LLM rewrites
DirectTools == {"calculator", "datetime", "system_info"}
ContextTools == {"web_search", "python_repl"}

\* is_complex: the question holds a keyword that asks for reasoning
is_complex(question) ==
    LET
        ComplexWords ==
            { <<"p", "a", "s", "o", " ", "a", " ", "p", "a", "s", "o">>,
              <<"s", "t", "e", "p", " ", "b", "y", " ", "s", "t", "e", "p">>,
              <<"a", "n", "a", "l", "i", "z", "a">>,
              <<"r", "e", "s", "u", "e", "l", "v", "e">>,
              <<"c", "o", "m", "p", "l", "e", "j", "o">>,
              <<"r", "a", "z", "o", "n", "a">> }
    IN  HasAny(ComplexWords, LowerStr(question))

Whitespace == {" ", "\n", "\t"}

\* str.strip()
Strip(s) ==
    LET Inked == {i \in 1..Len(s) : s[i] \notin Whitespace}
    IN  IF Inked = {} THEN <<>>
        ELSE SubSeq(s, CHOOSE i \in Inked : \A j \in Inked : i <= j,
                       CHOOSE i \in Inked : \A j \in Inked : i >= j)

_is_smalltalk(question) ==
    LET q == LowerStr(Strip(question))
        Greetings ==
            { <<"h", "o", "l", "a">>,
              <<"b", "u", "e", "n", "a", "s">>,
              <<"h", "e", "l", "l", "o">>,
              <<"h", "i">>,
              <<"h", "e", "y">> }
    IN  \E g \in Greetings : q = g \/ StartsWith(q, g \o <<" ">>)

\* _smalltalk_answer
SmalltalkAnswer ==
    <<"¡","H","o","l","a","!"," ","¿","E","n"," ","q","u","é"," ","p","u","e","d","o"," ","a","y","u","d","a","r","t","e","?"," ","P","u","e","d","e","s"," ","a","g","r","e","g","a","r"," ","t","e","x","t","o"," ","y"," ","h","a","c","e","r"," ","p","r","e","g","u","n","t","a","s"," ","s","o","b","r","e"," ","e","s","o",".">>

_is_datetime_query(question) ==
    LET
        DatetimeQueryWords ==
            { <<"h", "o", "r", "a">>,
              <<"q", "u", "é", " ", "h", "o", "r", "a">>,
              <<"q", "u", "e", " ", "h", "o", "r", "a">>,
              <<"q", "u", "é", " ", "f", "e", "c", "h", "a">>,
              <<"q", "u", "e", " ", "f", "e", "c", "h", "a">>,
              <<"f", "e", "c", "h", "a">>,
              <<"d", "í", "a">>,
              <<"q", "u", "e", " ", "d", "i", "a">>,
              <<"q", "u", "é", " ", "d", "í", "a">>,
              <<"h", "o", "y">>,
              <<"d", "i", "a", " ", "d", "e", " ", "h", "o", "y">> }
    IN  HasAny(DatetimeQueryWords, LowerStr(Strip(question)))

\* the answer of ask when nothing is indexed
NoCorpusAnswer ==
    <<"A","ú","n"," ","n","o"," ","t","e","n","g","o"," ","i","n","f","o","r","m","a","c","i","ó","n"," ","i","n","d","e","x","a","d","a","."," ","U","s","a"," ","'","A","g","r","e","g","a","r"," ","t","e","x","t","o","'"," ","p","a","r","a"," ","c","a","r","g","a","r"," ","c","o","n","t","e","n","i","d","o"," ","y"," ","p","r","e","g","u","n","t","a","r"," ","s","o","b","r","e"," ","e","s","o",".">>

\* what ask puts before an answer to a question unrelated to the previous one
CoherencePrefix ==
    <<"N","o","t","a",":"," ","t","u"," ","p","r","e","g","u","n","t","a"," ","n","o"," ","p","a","r","e","c","e"," ","r","e","l","a","c","i","o","n","a","d","a"," ","c","o","n"," ","l","a"," ","a","n","t","e","r","i","o","r","."," ">>

\* prev_user_text: the content of the newest user message, None without one
PrevUserText(messages) ==
    LET Users == {i \in 1..Len(messages) : messages[i].role \in {"user", "usuario"}}
    IN  IF Users = {} THEN None
        ELSE Some(messages[CHOOSE i \in Users : \A j \in Users : i >= j].content)

\* _semantic_related(a, b)[0]: TRUE without a previous text, else cosine >= 0.30
_semantic_related(a, b) ==
    IF a.is_none \/ a.v = <<>> \/ b = <<>> THEN TRUE
    ELSE _cosine_similarity(encode_query(a.v), encode_query(b)) >= 30

\* top_k of ask
AskTopK == 4

\* the modes of the LLM client in which ask talks to the LLM
ChatModes == {"openai", "huggingface", "ollama", "local"}

\* "if not self._corpus_texts"
CorpusEmpty(texts) == texts = <<>>

\* the questions of the ask calls: a plain one, a greeting, one for the
\* datetime tool, one for the date handler, one that asks for reasoning, one
\* for the visualizer, one for the code tool, and one as long as the memory
AskQuestions ==
    { <<"x">>,
      <<"H", "o", "l", "a">>,
      <<"h", "o", "y">>,
      <<"q", "u", "e", " ", "d", "i", "a">>,
      <<"a", "n", "a", "l", "i", "z", "a", " ", "x">>,
      <<"v", "e", "r", " ", "x">>,
      <<"c", "o", "d", "e">>,
      [i \in 1.._max_chars |-> "."] }

\* what the tests of ask give for each question
AskTests ==
    [q \in AskQuestions |->
        [tool |-> detect_tool(q), complex |-> is_complex(q),
         smalltalk |-> _is_smalltalk(q), datetime |-> _is_datetime_query(q)]]

\* the branch of ask that answers the question
AskPath(question, stream) ==
    IF AskTests[question].tool \in DirectTools THEN "tool"
    ELSE IF AskTests[question].tool \in ContextTools THEN "tool_synthesis"
    ELSE IF AskTests[question].complex /\ ~stream THEN "cot"
    ELSE IF AskTests[question].smalltalk THEN "smalltalk"
    ELSE IF AskTests[question].datetime THEN "datetime"
    ELSE IF CorpusEmpty(_corpus_texts) THEN "no_corpus"
    ELSE IF stream /\ _mode \in ChatModes THEN "stream"
    ELSE "retrieval"

\* the branches that come after "retrieved = self.retrieve(question, top_k)"
AfterRetrieve == {"smalltalk", "datetime", "no_corpus", "stream", "retrieval"}

\* coherence_note is set
CoherenceNote(messages, question) == ~_semantic_related(PrevUserText(messages), question)

\* the answer the memory is handed on the retrieval paths
FinalAnswer(messages, question, answer) ==
    IF CoherenceNote(messages, question) THEN CoherencePrefix \o answer ELSE answer

\* the frame of _streaming_wrapper: the chunks the LLM has still to produce,
\* those collected, and whether the generator was started
StreamFrame(question, note, pending) ==
    [question |-> question, note |-> note, pending |-> pending,
     collected |-> <<>>, started |-> FALSE]

RECURSIVE Join(_)
\* "".join(chunks)
Join(chunks) == IF chunks = <<>> THEN <<>> ELSE chunks[1] \o Join(Tail(chunks))

\* mutant of AskAnswer: the branch for an empty corpus answers as the
\* retrieval branch does
AskAnswerUnfixed(path, tool_result, answer) ==
    CASE path \in {"tool", "datetime"} -> tool_result
      [] path = "smalltalk" -> SmalltalkAnswer
      [] path = "stream" -> <<>>
      [] OTHER -> answer

\* the answer of each branch (a streamed answer is not known at the return)
AskAnswer(path, tool_result, answer) ==
    CASE path \in {"tool", "datetime"} -> tool_result
      [] path = "smalltalk" -> SmalltalkAnswer
      [] path = "no_corpus" -> NoCorpusAnswer
      [] path = "stream" -> <<>>
      [] OTHER -> answer

\* the largest number of ask calls
MaxAsks == 2

\* ask(question, stream=stream).  tool_result is what the tool, or the clock
\* of the date handler, gives; answer is the text the LLM, the reasoner or the
\* extractive fallback produces; chunks are the pieces the LLM streams.  The
\* retrieved context is not blank (ask does not turn to Wikipedia).
Ask(question, stream, tool_result, answer, chunks) ==
    LET path == AskPath(question, stream)
        hit == CacheIndex(_retrieve_cache, CacheKey(question, AskTopK)) # 0
        retrieved == RetrieveResult(question, AskTopK)
        given == AskAnswer(path, tool_result, answer)
    IN
    /\ asked < MaxAsks
    /\ gen = None
    /\ path \in {"stream", "retrieval"} =>
          \E n \in 1..Len(retrieved) : Strip(retrieved[n].text) # <<>>
    /\ asked' = asked + 1
    /\ _retrieve_cache' =
          IF path \in AfterRetrieve /\ ~hit
          THEN CachePut(_retrieve_cache, CacheKey(question, AskTopK), retrieved)
          ELSE _retrieve_cache
    /\ _messages' =
          CASE path \in {"tool", "tool_synthesis", "cot"} ->
                  SaveTurn(_messages, question, given,
                           {"conversation_id"}, {"metadata", "conversation_id"})
            [] path \in {"smalltalk", "datetime"} ->
                  SaveTurn(_messages, question, given,
                           {"conversation_id"}, {"conversation_id"})
            [] path = "no_corpus" ->
                  SaveTurn(_messages, question, given, {}, {})
            [] path = "retrieval" ->
                  SaveTurn(_messages, question,
                           FinalAnswer(_messages, question, given),
                           {"conversation_id", "importance"},
                           {"metadata", "conversation_id", "importance"})
            [] OTHER -> _messages
    /\ gen' = IF path = "stream"
              THEN Some(StreamFrame(question, CoherenceNote(_messages, question), chunks))
              ELSE None
    /\ ask_ret' = [op |-> "ask", question |-> question, stream |-> stream,
                   path |-> path, answer |-> given,
                   references |-> IF path \in {"stream", "retrieval"}
                                  THEN retrieved ELSE <<>>,
                   indexed |-> Len(_corpus_texts),
                   before |-> _messages]
    /\ UNCHANGED <<ingest_calls, prefer_faiss, _storage_dir, _corpus_texts, _corpus_metas,
                   store_index, store_metas, disk, brain_ret, faults, _mode>>
    /\ UNCHANGED kgVars
    /\ UNCHANGED memVars

\* the "finally" of _streaming_wrapper: the messages afterwards
SaveStream(messages, frame) ==
    SaveTurn(messages, frame.question,
             IF frame.note THEN CoherencePrefix \o Join(frame.collected)
             ELSE Join(frame.collected),
             {"conversation_id", "importance"},
             {"metadata", "conversation_id", "importance"})

\* the consumer asks the generator for the next chunk: the generator collects
\* and yields it, or, with no chunk left, runs its "finally" and ends
StreamNext ==
    /\ ~gen.is_none
    /\ IF gen.v.pending # <<>>
       THEN /\ gen' = Some([gen.v EXCEPT !.pending = Tail(@),
                                         !.collected = Append(@, gen.v.pending[1]),
                                         !.started = TRUE])
            /\ UNCHANGED _messages
            /\ ask_ret' = [op |-> "stream", state |-> "open",
                           question |-> gen.v.question,
                           yielded |-> Append(gen.v.collected, gen.v.pending[1]),
                           before |-> _messages]
       ELSE /\ gen' = None
            /\ _messages' = SaveStream(_messages, gen.v)
            /\ ask_ret' = [op |-> "stream", state |-> "exhausted",
                           question |-> gen.v.question,
                           yielded |-> gen.v.collected,
                           before |-> _messages]
    /\ UNCHANGED <<_mode, asked>>
    /\ UNCHANGED kgVars
    /\ UNCHANGED brainVars
    /\ UNCHANGED memVars

\* the consumer stops and closes the generator: a started generator gets
\* GeneratorExit at its yield and runs its "finally"; one that was never
\* started runs nothing
StreamClose ==
    /\ ~gen.is_none
    /\ gen' = None
    /\ _messages' = IF gen.v.started THEN SaveStream(_messages, gen.v) ELSE _messages
    /\ ask_ret' = [op |-> "stream", state |-> "closed",
                   question |-> gen.v.question,
                   yielded |-> gen.v.collected,
                   before |-> _messages]
    /\ UNCHANGED <<_mode, asked>>
    /\ UNCHANGED kgVars
    /\ UNCHANGED brainVars
    /\ UNCHANGED memVars

\* the texts of the tool, of the LLM, and the chunks it streams
ToolResultInputs == { <<"t">> }
AnswerInputs == { <<"x", "y">> }
ChunkInputs == { << <<"a">>, <<"b">> >> }

\* Brain() with no LLM configured, or with a local LLM server
InitAsk ==
    /\ InitGraph
    /\ prefer_faiss = FALSE
    /\ _storage_dir = FALSE
    /\ BrainNew
    /\ MemoryNew
    /\ _messages = <<>>
    /\ _mode \in {"fallback", "ollama"}
    /\ gen = None
    /\ asked = 0
    /\ ask_ret = [op |-> "init"]

NextAsk ==
    \/ /\ _corpus_texts = <<>>
       /\ IngestRaw(<<DocB>>, 2, 1, "none")
    \/ \E q \in AskQuestions, stream \in BOOLEAN, t \in ToolResultInputs,
          a \in AnswerInputs, c \in ChunkInputs : Ask(q, stream, t, a, c)
    \/ StreamNext
    \/ StreamClose

\* one Brain: an ingest, asks, and the consumption of a streamed answer
SpecAsk == InitAsk /\ [][NextAsk]_vars

(***************************************************************************)
(* Brain.ask: properties                                                   *)
(***************************************************************************)
\* C18: after a non-streaming ask on the normal retrieval path (the corpus is
\* not empty, no tool, no small talk) the conversation memory ends with the
\* user's question followed by the assistant's answer.
C18_Original ==
    (ask_ret.op = "ask" /\ ask_ret.path = "retrieval" /\ ~ask_ret.stream) =>
        LET n == Len(_messages)
        IN  /\ n >= 2
            /\ _messages[n - 1] = [role |-> "user", content |-> ask_ret.question]
            /\ _messages[n].role = "assistant"
            /\ _messages[n].content \in {ask_ret.answer, CoherencePrefix \o ask_ret.answer}

\* C19: when the consumer of a streamed ask stops after k chunks and the
\* stream is closed, the memory receives the user's question and then an
\* assistant message that is the concatenation of exactly the k chunks that
\* were yielded; nothing is rolled back.
C19_Original ==
    (ask_ret.op = "stream" /\ ask_ret.state = "closed") =>
        LET n == Len(_messages)
        IN  /\ n >= 2
            /\ _messages[n - 1] = [role |-> "user", content |-> ask_ret.question]
            /\ _messages[n].role = "assistant"
            /\ _messages[n].content \in {Join(ask_ret.yielded),
                                         CoherencePrefix \o Join(ask_ret.yielded)}

\* C20 as stated: ask on an empty corpus returns the fixed "nothing indexed
\* yet" answer with no references for every question text.
C20_Original ==
    (ask_ret.op = "ask" /\ ask_ret.indexed = 0) =>
        /\ ask_ret.answer = NoCorpusAnswer
        /\ ask_ret.references = <<>>

\* C20: ask on an empty corpus returns the fixed "nothing indexed yet" answer
\* with no references for every question that no tool answers, that is not
\* answered by reasoning, and that is neither small talk nor a question for
\* the date; every ask on an empty corpus returns no references.
C20_NothingIndexedAnswer ==
    (ask_ret.op = "ask" /\ ask_ret.indexed = 0) =>
        /\ ask_ret.references = <<>>
        /\ (/\ AskTests[ask_ret.question].tool \notin DirectTools \cup ContextTools
            /\ ~(AskTests[ask_ret.question].complex /\ ~ask_ret.stream)
            /\ ~AskTests[ask_ret.question].smalltalk
            /\ ~AskTests[ask_ret.question].datetime)
           => ask_ret.answer = NoCorpusAnswer

\* the fixed answer was returned on an empty corpus, and the memory holds the
\* question and that answer
C20_Witness ==
    /\ ask_ret.op = "ask"
    /\ ask_ret.indexed = 0
    /\ ask_ret.question = <<"x">>
    /\ ask_ret.answer = NoCorpusAnswer
    /\ ask_ret.references = <<>>
    /\ Len(_messages) >= 2
    /\ _messages[Len(_messages)].content = NoCorpusAnswer

(***************************************************************************)
(* add_edge called from two threads on one KnowledgeGraph.                 *)
(* The class holds no lock (knowledge_graph.py has no threading import),   *)
(* so the interpreter may switch threads between any two statements of     *)
(* add_edge.  Each action below is one statement of one thread.            *)
(***************************************************************************)
\* the edges the two threads hand to add_edge
RaceWeights == 2..3

RaceEdgeInputs ==
    { KnowledgeEdge("P", "A", "requires", w, ev) :
        w \in RaceWeights, ev \in EvidenceInputs }
    \cup { KnowledgeEdge("A", "R", "produces", 2, {"d1"}) }

\* the graphs the threads start on: add_node P, add_node A, and then either
\* nothing or add_edge (P, A, requires) of weight 1
RaceNodes ==
    << KnowledgeNode("P", "problem", Str("P"), <<>>, "m0"),
       KnowledgeNode("A", "action", Str("A"), <<>>, "m0") >>

RaceEdgeLayouts ==
    { <<>>, << KnowledgeEdge("P", "A", "requires", 1, {"d0"}) >> }

InitEdgeRace ==
    /\ nodes = RaceNodes
    /\ db_nodes = {NodeRow(RaceNodes[1]), NodeRow(RaceNodes[2])}
    /\ edges \in RaceEdgeLayouts
    /\ db_edges = [i \in 1..Len(edges) |-> EdgeRow(edges[i])]
    /\ kg_ret = [op |-> "init"]
    /\ edge_calls = NoCalls
    /\ prefer_faiss = TRUE
    /\ _storage_dir = FALSE
    /\ BrainNew
    /\ AskNew
    /\ MemoryNew

EdgeStepFrame ==
    /\ UNCHANGED <<nodes, db_nodes>>
    /\ UNCHANGED brainVars
    /\ UNCHANGED memVars
    /\ UNCHANGED askVars

\* thread t enters add_edge(e): the endpoint checks and existing = next(...)
EdgeLookup(t, e) ==
    /\ edge_calls[t].pc = "idle"
    /\ edge_calls' = [edge_calls EXCEPT ![t] =
          IF ~EndpointsKnown(e) THEN [pc |-> "done", edge |-> e, out |-> "rejected"]
          ELSE IF Existing(edges, e) # 0
          THEN [pc |-> "compare", edge |-> e, existing |-> Existing(edges, e)]
          ELSE [pc |-> "append", edge |-> e]]
    /\ kg_ret' = [op |-> "add_edge", thread |-> t, step |-> "lookup"]
    /\ UNCHANGED <<edges, db_edges>>
    /\ EdgeStepFrame

\* if edge.weight > existing.weight
EdgeCompare(t) ==
    LET c == edge_calls[t] IN
    /\ c.pc = "compare"
    /\ edge_calls' = [edge_calls EXCEPT ![t] =
          IF Stronger(c.edge, edges[c.existing])
          THEN [c EXCEPT !.pc = "set_weight"]
          ELSE [pc |-> "done", edge |-> c.edge, out |-> "noop"]]
    /\ kg_ret' = [op |-> "add_edge", thread |-> t, step |-> "compare"]
    /\ UNCHANGED <<edges, db_edges>>
    /\ EdgeStepFrame

\* existing.weight = edge.weight
EdgeSetWeight(t) ==
    LET c == edge_calls[t] IN
    /\ c.pc = "set_weight"
    /\ edges' = [edges EXCEPT ![c.existing].weight = c.edge.weight]
    /\ edge_calls' = [edge_calls EXCEPT ![t].pc = "set_evidence"]
    /\ kg_ret' = [op |-> "add_edge", thread |-> t, step |-> "set_weight"]
    /\ UNCHANGED db_edges
    /\ EdgeStepFrame

\* existing.evidence.extend(edge.evidence); existing.evidence = list(set(...))
EdgeSetEvidence(t) ==
    LET c == edge_calls[t] IN
    /\ c.pc = "set_evidence"
    /\ edges' = [edges EXCEPT ![c.existing].evidence = @ \cup c.edge.evidence]
    /\ edge_calls' = [edge_calls EXCEPT ![t].pc = "update_db"]
    /\ kg_ret' = [op |-> "add_edge", thread |-> t, step |-> "set_evidence"]
    /\ UNCHANGED db_edges
    /\ EdgeStepFrame

\* self._update_edge_in_db(existing): the values existing holds at this moment
EdgeUpdateDb(t) ==
    LET c == edge_calls[t] IN
    /\ c.pc = "update_db"
    /\ db_edges' = UpdateEdgeInDb(db_edges, edges[c.existing])
    /\ edge_calls' = [edge_calls EXCEPT ![t] =
                         [pc |-> "done", edge |-> c.edge, out |-> "merged"]]
    /\ kg_ret' = [op |-> "add_edge", thread |-> t, step |-> "update_db"]
    /\ UNCHANGED edges
    /\ EdgeStepFrame

\* self.edges.append(edge)
EdgeAppend(t) ==
    LET c == edge_calls[t] IN
    /\ c.pc = "append"
    /\ edges' = Append(edges, c.edge)
    /\ edge_calls' = [edge_calls EXCEPT ![t].pc = "save_db"]
    /\ kg_ret' = [op |-> "add_edge", thread |-> t, step |-> "append"]
    /\ UNCHANGED db_edges
    /\ EdgeStepFrame

\* self._save_edge_to_db(edge)
EdgeSaveDb(t) ==
    LET c == edge_calls[t] IN
    /\ c.pc = "save_db"
    /\ db_edges' = Append(db_edges, EdgeRow(c.edge))
    /\ edge_calls' = [edge_calls EXCEPT ![t] =
                         [pc |-> "done", edge |-> c.edge, out |-> "inserted"]]
    /\ kg_ret' = [op |-> "add_edge", thread |-> t, step |-> "save_db"]
    /\ UNCHANGED edges
    /\ EdgeStepFrame

NextEdgeRace ==
    \/ \E t \in Threads, e \in RaceEdgeInputs : EdgeLookup(t, e)
    \/ \E t \in Threads : EdgeCompare(t)
    \/ \E t \in Threads : EdgeSetWeight(t)
    \/ \E t \in Threads : EdgeSetEvidence(t)
    \/ \E t \in Threads : EdgeUpdateDb(t)
    \/ \E t \in Threads : EdgeAppend(t)
    \/ \E t \in Threads : EdgeSaveDb(t)

\* one add_edge call per thread, the statements of the two interleaved
SpecEdgeRace == InitEdgeRace /\ [][NextEdgeRace]_vars

\* the edges of es that carry the triple of e
WithKey(es, e) == {i \in 1..Len(es) : EdgeKey(es[i]) = EdgeKey(e)}

\* both threads have returned from add_edge calls for one triple with known endpoints
BothAddedSameKey ==
    /\ \A t \in Threads : edge_calls[t].pc = "done" /\ edge_calls[t].out # "rejected"
    /\ EdgeKey(edge_calls[1].edge) = EdgeKey(edge_calls[2].edge)

\* C21: after two concurrent add_edge calls for one triple have returned,
\* the graph and the store each hold exactly one edge for the triple, and
\* its weight is at least the larger of the two weights (the larger itself
\* when no heavier edge was held before).
C21_Original ==
    BothAddedSameKey =>
        LET e1 == edge_calls[1].edge
            e2 == edge_calls[2].edge
            most == Max(e1.weight, e2.weight)
        IN  /\ Cardinality(WithKey(edges, e1)) = 1
            /\ Cardinality(WithKey(db_edges, e1)) = 1
            /\ \A i \in WithKey(edges, e1) : edges[i].weight = most
            /\ \A i \in WithKey(db_edges, e1) : db_edges[i].weight = most

\* both calls found no edge and both appended: the triple is held twice
C21_TwoEdges ==
    ~(BothAddedSameKey /\ Cardinality(WithKey(edges, edge_calls[1].edge)) = 2)

\* both calls merged into the stored edge and the lighter weight was written last
C21_LostWeight ==
    ~(/\ BothAddedSameKey
      /\ edge_calls[1].out = "merged" /\ edge_calls[2].out = "merged"
      /\ \E i \in WithKey(edges, edge_calls[1].edge) :
            edges[i].weight < Max(edge_calls[1].edge.weight, edge_calls[2].edge.weight))

(***************************************************************************)
(* ingest_raw called from two threads on one Brain with an                 *)
(* InMemoryVectorStore and no storage directory.  Neither Brain nor the    *)
(* store holds a lock, so the interpreter may switch threads between two   *)
(* statements, and between the read and the write of self._embeddings in   *)
(* InMemoryVectorStore.add.  Each action below is one such step.           *)
(***************************************************************************)
InitIngestRace ==
    /\ InitGraph
    /\ prefer_faiss = FALSE
    /\ _storage_dir = FALSE
    /\ BrainNew
    /\ AskNew
    /\ MemoryNew

IngestStepFrame ==
    /\ UNCHANGED <<prefer_faiss, _storage_dir, _retrieve_cache, disk, faults>>
    /\ UNCHANGED kgVars
    /\ UNCHANGED memVars
    /\ UNCHANGED askVars

\* thread t enters ingest_raw(docs): prepare_documents, encode_texts, metas
IngestPrepare(t, docs, chunk_chars, overlap) ==
    LET prepared == prepare_documents(docs, chunk_chars, overlap)
        texts == [i \in 1..Len(prepared) |-> prepared[i].text]
    IN
    /\ ingest_calls[t].pc = "idle"
    /\ ingest_calls' = [ingest_calls EXCEPT ![t] =
          IF docs = <<>> THEN [pc |-> "done", value |-> 0]
          ELSE [pc |-> "add_read", texts |-> texts,
                metas |-> [i \in 1..Len(prepared) |-> MetaOf(prepared[i])],
                X |-> encode_texts(texts)]]
    /\ brain_ret' = [op |-> "ingest_raw", thread |-> t, step |-> "prepare"]
    /\ UNCHANGED <<_corpus_texts, _corpus_metas, store_index, store_metas>>
    /\ IngestStepFrame

\* store.add: the value of self._embeddings is read, and stacked with X
IngestAddRead(t) ==
    LET c == ingest_calls[t] IN
    /\ c.pc = "add_read"
    /\ ingest_calls' = [ingest_calls EXCEPT ![t] =
          [pc |-> "add_write", texts |-> c.texts, metas |-> c.metas,
           stacked |-> AddRows(store_index, c.X)]]
    /\ brain_ret' = [op |-> "ingest_raw", thread |-> t, step |-> "add_read"]
    /\ UNCHANGED <<_corpus_texts, _corpus_metas, store_index, store_metas>>
    /\ IngestStepFrame

\* store.add: self._embeddings = ...
IngestAddWrite(t) ==
    LET c == ingest_calls[t] IN
    /\ c.pc = "add_write"
    /\ store_index' = c.stacked
    /\ ingest_calls' = [ingest_calls EXCEPT ![t] =
          [pc |-> "add_metas", texts |-> c.texts, metas |-> c.metas]]
    /\ brain_ret' = [op |-> "ingest_raw", thread |-> t, step |-> "add_write"]
    /\ UNCHANGED <<_corpus_texts, _corpus_metas, store_metas>>
    /\ IngestStepFrame

\* store.add: self._metas.extend(metas)
IngestAddMetas(t) ==
    LET c == ingest_calls[t] IN
    /\ c.pc = "add_metas"
    /\ store_metas' = store_metas \o c.metas
    /\ ingest_calls' = [ingest_calls EXCEPT ![t].pc = "corpus_texts"]
    /\ brain_ret' = [op |-> "ingest_raw", thread |-> t, step |-> "add_metas"]
    /\ UNCHANGED <<_corpus_texts, _corpus_metas, store_index>>
    /\ IngestStepFrame

\* self._corpus_texts.extend(texts)
IngestCorpusTexts(t) ==
    LET c == ingest_calls[t] IN
    /\ c.pc = "corpus_texts"
    /\ _corpus_texts' = _corpus_texts \o c.texts
    /\ ingest_calls' = [ingest_calls EXCEPT ![t].pc = "corpus_metas"]
    /\ brain_ret' = [op |-> "ingest_raw", thread |-> t, step |-> "corpus_texts"]
    /\ UNCHANGED <<_corpus_metas, store_index, store_metas>>
    /\ IngestStepFrame

\* self._corpus_metas.extend(metas); no storage directory; return len(prepared)
IngestCorpusMetas(t) ==
    LET c == ingest_calls[t] IN
    /\ c.pc = "corpus_metas"
    /\ ~_storage_dir
    /\ _corpus_metas' = _corpus_metas \o c.metas
    /\ ingest_calls' = [ingest_calls EXCEPT ![t] =
          [pc |-> "done", value |-> Len(c.metas)]]
    /\ brain_ret' = [op |-> "ingest_raw", thread |-> t, step |-> "corpus_metas"]
    /\ UNCHANGED <<_corpus_texts, store_index, store_metas>>
    /\ IngestStepFrame

NextIngestRace ==
    \/ \E t \in Threads, docs \in DocListInputs, cc \in ChunkCharInputs,
          ov \in OverlapInputs : IngestPrepare(t, docs, cc, ov)
    \/ \E t \in Threads : IngestAddRead(t)
    \/ \E t \in Threads : IngestAddWrite(t)
    \/ \E t \in Threads : IngestAddMetas(t)
    \/ \E t \in Threads : IngestCorpusTexts(t)
    \/ \E t \in Threads : IngestCorpusMetas(t)

\* one ingest_raw call per thread, the steps of the two interleaved
SpecIngestRace == InitIngestRace /\ [][NextIngestRace]_vars

\* both threads have returned from ingest_raw calls that prepared chunks
BothIngested ==
    \A t \in Threads : ingest_calls[t].pc = "done" /\ ingest_calls[t].value > 0

\* C22: after two concurrent ingest_raw calls have returned, the index holds
\* the vectors and the metadata of both: the number of vectors, the number
\* of metadata entries and the length of the document store are all the
\* sum of the two returned chunk counts.
C22_Original ==
    BothIngested =>
        /\ Rows(store_index) = ingest_calls[1].value + ingest_calls[2].value
        /\ Rows(store_index) = Len(store_metas)
        /\ Len(store_metas) = Len(_corpus_texts)
        /\ Len(_corpus_texts) = Len(_corpus_metas)

\* the two add calls interleaved: one thread's vectors were overwritten
C22_LostVectors ==
    ~(BothIngested /\ Rows(store_index) < Len(store_metas))

(***************************************************************************)
(* find_solution_path on graphs with cycles, parallel edges, a direct      *)
(* problem -> result edge and two problem nodes                            *)
(***************************************************************************)
SearchNodes ==
    << KnowledgeNode("P", "problem", Str("P"), <<>>, "m0"),
       KnowledgeNode("Q", "problem", <<"P", "Q">>, <<>>, "m0"),
       KnowledgeNode("A", "action", Str("A"), <<>>, "m0"),
       KnowledgeNode("R", "result", Str("R"), <<>>, "m0") >>

\* the edges handed to add_edge, in the order of the calls
SearchEdges ==
    << KnowledgeEdge("P", "A", "requires", 1, {"d1"}),
       KnowledgeEdge("P", "A", "uses", 1, {"d1"}),
       KnowledgeEdge("A", "P", "causes", 1, {"d1"}),
       KnowledgeEdge("A", "P", "returns", 1, {"d1"}),
       KnowledgeEdge("A", "R", "produces", 1, {"d1"}),
       KnowledgeEdge("A", "R", "yields", 1, {"d1"}),
       KnowledgeEdge("P", "R", "produces", 1, {"d1"}),
       KnowledgeEdge("Q", "A", "requires", 1, {"d1"}) >>

\* the edge list after add_edge was called for the edges of SearchEdges chosen by pick
EdgesPicked(pick) ==
    LET Picked(e) == \E i \in pick : SearchEdges[i] = e
    IN  SelectSeq(SearchEdges, Picked)

SearchProblems == { Str("P"), Str("Q"), Str("x") }
SearchDepths == {1, 2, 5}

\* a graph built by add_node for every node and add_edge for some of the edges
InitSearch ==
    /\ nodes = SearchNodes
    /\ db_nodes = {NodeRow(SearchNodes[i]) : i \in 1..Len(SearchNodes)}
    /\ edges \in {EdgesPicked(pick) : pick \in SUBSET (1..Len(SearchEdges))}
    /\ db_edges = [i \in 1..Len(edges) |-> EdgeRow(edges[i])]
    /\ kg_ret = [op |-> "init"]
    /\ edge_calls = NoCalls
    /\ prefer_faiss = TRUE
    /\ _storage_dir = FALSE
    /\ BrainNew
    /\ AskNew
    /\ MemoryNew

NextSearch ==
    \E problem \in SearchProblems, max_depth \in SearchDepths :
        FindSolutionPath(problem, max_depth)

\* searches of one graph
SpecSearch == InitSearch /\ [][NextSearch]_vars

Searched == kg_ret.op = "find_solution_path"

\* a returned path as the list of its (relation, node id) steps
Route(p) == [i \in 1..Len(p.path) |-> <<p.path[i].relation, p.path[i].node.id>>]

ReturnedRoutes == {Route(kg_ret.paths[i]) : i \in 1..Len(kg_ret.paths)}

\* the edges a returned path traverses, in order
RouteEdges(p) ==
    [i \in 1..(Len(p.path) - 1) |->
        <<p.path[i].node.id, p.path[i + 1].node.id, p.path[i + 1].relation>>]

\* C23: every path find_solution_path returns passes through at least one
\* node between the problem node and the result node; a problem node linked
\* to a result node by one edge yields no path of its own.
C23_Original ==
    Searched => \A i \in 1..Len(kg_ret.paths) : Len(kg_ret.paths[i].path) >= 3

\* a returned path that is one edge from a problem node to a result node
C23_DirectPath ==
    ~(Searched /\ \E i \in 1..Len(kg_ret.paths) : Len(kg_ret.paths[i].path) = 2)

RECURSIVE WalksFrom(_, _, _, _, _)
\* the walks from node_id to the first result node on it that use no edge
\* index of used, no edge twice, and at most left edges: lists of edge indexes
WalksFrom(ns, es, node_id, used, left) ==
    IF ns[NodeIndex(ns, node_id)].type = "result" THEN {<<>>}
    ELSE IF left = 0 THEN {}
    ELSE UNION { { <<i>> \o w : w \in WalksFrom(ns, es, es[i].target, used \cup {i}, left - 1) } :
                 i \in {j \in 1..Len(es) \ used : es[j].source = node_id} }

\* the (relation, node id) steps of the walk w from start
WalkRoute(es, start, w) ==
    << <<"start", start>> >> \o [i \in 1..Len(w) |-> <<es[w[i]].relation_type, es[w[i]].target>>]

\* every route within max_depth edges from a problem node matching problem
RoutesWithin(ns, es, problem, max_depth) ==
    LET pns == ProblemNodes(ns, problem)
    IN  UNION { { WalkRoute(es, pns[n].id, w) :
                    w \in WalksFrom(ns, es, pns[n].id, {}, max_depth) } :
                n \in 1..Len(pns) }

\* C24: find_solution_path returns on every graph, cyclic or not; every
\* returned path traverses at most max_depth edges; a route within max_depth
\* is returned although other branches were cut off at max_depth (all of
\* them when they are at most five); with no matching problem node the
\* list is empty.
C24_DepthBound ==
    Searched =>
        LET routes == RoutesWithin(nodes, edges, kg_ret.problem, kg_ret.max_depth)
        IN  /\ \A i \in 1..Len(kg_ret.paths) :
                  Len(kg_ret.paths[i].path) - 1 <= kg_ret.max_depth
            /\ ReturnedRoutes \subseteq routes
            /\ Cardinality(routes) <= TopPaths => ReturnedRoutes = routes
            /\ Cardinality(routes) > TopPaths => Len(kg_ret.paths) = TopPaths
            /\ ProblemNodes(nodes, kg_ret.problem) = <<>> => kg_ret.paths = <<>>

\* a search of a cyclic graph with max_depth 2 that returned a path although
\* a longer route to the result exists and was cut off
C24_Witness ==
    /\ Searched /\ kg_ret.max_depth = 2 /\ kg_ret.paths # <<>>
    /\ \E i \in 1..Len(edges) : EdgeKey(edges[i]) = <<"A", "P", "causes">>
    /\ RoutesWithin(nodes, edges, kg_ret.problem, 5) # ReturnedRoutes

\* C25: no returned path traverses an edge twice; visited_edges is empty
\* again when the search from a problem node returns.
C25_EdgesOncePerPath ==
    Searched =>
        /\ \A i \in 1..Len(kg_ret.paths) :
              LET re == RouteEdges(kg_ret.paths[i])
              IN  \A a, b \in 1..Len(re) : re[a] = re[b] => a = b
        /\ \A n \in 1..Len(nodes) :
              nodes[n].type = "problem" =>
                  DfsFrom(nodes, edges, kg_ret.max_depth, nodes[n], NewSearch).visited_edges = {}

\* two returned paths share an edge, and one of them passes a node twice
C25_Witness ==
    /\ Searched
    /\ \E i, j \in 1..Len(kg_ret.paths) :
          /\ i # j
          /\ \E a \in 1..Len(RouteEdges(kg_ret.paths[i])),
                b \in 1..Len(RouteEdges(kg_ret.paths[j])) :
                RouteEdges(kg_ret.paths[i])[a] = RouteEdges(kg_ret.paths[j])[b]
          /\ \E a, b \in 1..Len(kg_ret.paths[i].path) :
                a # b /\ kg_ret.paths[i].path[a].node.id = kg_ret.paths[i].path[b].node.id

\* 1.0 + 0.2 * types + 0.5 for a result at the end - 0.1 per step over 5, in tenths
StepsScore(steps) ==
    Max(0, 10 + 2 * Cardinality({steps[i].type : i \in 1..Len(steps)})
              - Max(0, Len(steps) - 5)
              + (IF steps[Len(steps)].type = "result" THEN 5 ELSE 0))

\* C26: at most five paths are returned, in non-increasing score order; no
\* discovered path that was left out scores higher than a returned one;
\* each score is the formula of _calculate_path_score.
C26_TopFiveByScore ==
    Searched =>
        LET found == DiscoveredPaths(nodes, edges, kg_ret.problem, kg_ret.max_depth)
            FoundRoute(d) == [i \in 1..Len(d.path) |->
                                 <<IF i = 1 THEN "start" ELSE d.path[i][1], d.path[i][2]>>]
        IN  /\ Len(kg_ret.paths) = Min(TopPaths, Len(found))
            /\ \A i \in 1..(Len(kg_ret.paths) - 1) :
                  kg_ret.paths[i].score >= kg_ret.paths[i + 1].score
            /\ \A i \in 1..Len(kg_ret.paths) :
                  kg_ret.paths[i].score = StepsScore(kg_ret.paths[i].path)
            /\ \A d \in 1..Len(found) :
                  FoundRoute(found[d]) \notin ReturnedRoutes
                  => \A i \in 1..Len(kg_ret.paths) : found[d].score <= kg_ret.paths[i].score

\* more than five paths were discovered, with different scores, one of them
\* longer than five steps, and a lower-scored path was discovered before a
\* higher-scored one
C26_Witness ==
    /\ Searched
    /\ LET found == DiscoveredPaths(nodes, edges, kg_ret.problem, kg_ret.max_depth)
       IN  /\ Len(found) > TopPaths
           /\ \E a, b \in 1..Len(found) : a < b /\ found[a].score < found[b].score
           /\ \E a \in 1..Len(found) : Len(found[a].path) > 5
    /\ kg_ret.paths[1].score > kg_ret.paths[Len(kg_ret.paths)].score

(***************************************************************************)
(* data.chunk_text as a function of its arguments                          *)
(***************************************************************************)
\* the longest text handed to chunk_text
MaxTextLen == 5

ChunkTexts == UNION { [1..n -> {"x", "y"}] : n \in 0..MaxTextLen }

ChunkMaxChars == 1..3

ChunkOverlaps == 0..3

\* chunk_text(text, max_chars, overlap) is called and returns chunks
ChunkText(text, max_chars, overlap) ==
    /\ brain_ret' = [op |-> "chunk_text", text |-> text, max_chars |-> max_chars,
                     overlap |-> overlap,
                     chunks |-> chunk_text(text, max_chars, overlap)]
    /\ UNCHANGED <<ingest_calls, prefer_faiss, _storage_dir, _corpus_texts, _corpus_metas,
                   store_index, store_metas, _retrieve_cache, disk, faults>>
    /\ UNCHANGED kgVars
    /\ UNCHANGED memVars
    /\ UNCHANGED askVars

NextChunk ==
    \E text \in ChunkTexts, max_chars \in ChunkMaxChars, overlap \in ChunkOverlaps :
        ChunkText(text, max_chars, overlap)

\* calls of chunk_text
SpecChunk == InitCache /\ [][NextChunk]_vars

\* a call of chunk_text on a text longer than max_chars with 0 < overlap < max_chars
ChunkedWithOverlap ==
    /\ brain_ret.op = "chunk_text"
    /\ Len(brain_ret.text) > brain_ret.max_chars
    /\ 0 < brain_ret.overlap /\ brain_ret.overlap < brain_ret.max_chars

\* C27: for a text longer than max_chars and 0 < overlap < max_chars, every
\* chunk after the first starts overlap characters before the end of the
\* chunk before it (so it begins with the last overlap characters of that
\* chunk), and every chunk has between 1 and max_chars characters.
C27_Original ==
    ChunkedWithOverlap =>
        LET chunks == brain_ret.chunks
            ov == brain_ret.overlap
        IN  /\ \A i \in 1..Len(chunks) :
                  Len(chunks[i]) >= 1 /\ Len(chunks[i]) <= brain_ret.max_chars
            /\ \A i \in 2..Len(chunks) :
                  /\ Len(chunks[i]) >= ov
                  /\ SubSeq(chunks[i], 1, ov)
                        = SubSeq(chunks[i - 1], Len(chunks[i - 1]) - ov + 1, Len(chunks[i - 1]))

RECURSIVE Flatten(_)
Flatten(chunks) == IF chunks = <<>> THEN <<>> ELSE chunks[1] \o Flatten(Tail(chunks))

\* the chunks of such a call are the text cut into consecutive pieces: no
\* character is repeated, whatever the overlap
C27_NoOverlap ==
    ~(ChunkedWithOverlap /\ Flatten(brain_ret.chunks) = brain_ret.text
      /\ brain_ret.text = <<"x", "x", "y">> /\ brain_ret.max_chars = 2)

(***************************************************************************)
(* ChatMemory(max_chars=4000) under a sequence of add calls                *)
(***************************************************************************)
ChatRoles == {"user", "assistant"}

\* contents of 1000, 1500 and 4000 characters
ChatContents == { Pad(1000), Pad(1500), Pad(_max_chars) }

\* ChatMemory.add(role, content): append and _trim
MemoryAdd(role, content) ==
    /\ _messages' = ChatMemoryAdd(_messages, role, content)
    /\ ask_ret' = [op |-> "memory_add", role |-> role, content |-> content]
    /\ UNCHANGED <<_mode, gen, asked>>
    /\ UNCHANGED kgVars
    /\ UNCHANGED brainVars
    /\ UNCHANGED memVars

NextChat == \E role \in ChatRoles, content \in ChatContents : MemoryAdd(role, content)

\* one ChatMemory and its add calls
SpecChat == InitCache /\ [][NextChat]_vars

\* seq is what is left of whole when messages are dropped from its front
IsSuffix(seq, whole) ==
    /\ Len(seq) <= Len(whole)
    /\ seq = SubSeq(whole, Len(whole) - Len(seq) + 1, Len(whole))

\* C28: after every add the retained messages are the most recent ones in
\* chronological order (what was retained before plus the new message, with
\* messages dropped only from the old end), and their content lengths sum to
\* less than max_chars.
C28_Original ==
    [][ask_ret'.op = "memory_add"
       => /\ IsSuffix(_messages', Append(_messages, [role |-> ask_ret'.role,
                                                      content |-> ask_ret'.content]))
          /\ _messages' # <<>>
          /\ TotalChars(_messages') < _max_chars]_vars

\* the retained messages sum to more than max_chars
C28_OverBudget == ~(ask_ret.op = "memory_add" /\ TotalChars(_messages) > _max_chars)

(***************************************************************************)
(* Brain.retrieve against the corpus as it stands                          *)
(***************************************************************************)
\* the search of the current index and corpus that retrieve runs on a cache miss
FreshResult(query, top_k) ==
    Enriched(_corpus_texts, _corpus_metas, prefer_faiss, store_index, store_metas,
             query, top_k)

\* C29: what a retrieve call returns is the search of the corpus as it is
\* at the call: the result of a fresh search of the current index, also for
\* a (query, top_k) that was retrieved before an ingest_raw or a
\* remove_sources changed the corpus.
C29_Original ==
    brain_ret.op = "retrieve" => brain_ret.value = FreshResult(brain_ret.query, brain_ret.top_k)

\* a retrieve call returned a chunk whose source is no longer in the corpus
C29_RemovedChunkReturned ==
    ~(/\ brain_ret.op = "retrieve"
      /\ \E n \in 1..Len(brain_ret.value) :
            \A i \in 1..Len(_corpus_metas) :
                _corpus_metas[i].source # brain_ret.value[n].source)

(***************************************************************************)
(* The graph in memory against the graph a new KnowledgeGraph loads        *)
(***************************************************************************)
\* C30: after any sequence of add_node and add_edge calls a new
\* KnowledgeGraph loaded from the same database holds the same nodes and
\* the same edges (triples, weights and evidence sets) as the graph in memory.
C30_MemoryMatchesStore ==
    LET loaded == LoadFromDb(db_nodes, db_edges)
    IN  /\ loaded.nodes = {nodes[i] : i \in 1..Len(nodes)}
        /\ Cardinality(loaded.nodes) = Len(nodes)
        /\ loaded.edges = edges

\* a node was replaced, and an edge was merged so that its evidence grew
C30_Witness ==
    /\ IsAddEdge("merged")
    /\ \E i \in 1..Len(edges) : Cardinality(edges[i].evidence) = 2
    /\ \E i \in 1..Len(nodes) : nodes[i].id = "P" /\ nodes[i].label = Str("Q")
    /\ LoadFromDb(db_nodes, db_edges).edges = edges

====
